---- MODULE Spec2Model ----
(***************************************************************************)
(* Chromanode scanner: the block / transaction synchronizer                *)
(* (app.es6/scanner/sync.js), its event facade (app.es6/scanner/service.js)*)
(* and the store, lock and message bus it drives.                          *)
(*                                                                         *)
(* The store is one variable db = [blocks, transactions, history]; a       *)
(* database transaction is one atomic change of db.  The scanner's         *)
(* asynchronous handlers are cut at their awaits: a step taken by the      *)
(* database (a transaction executing and committing) is separate from the  *)
(* step in which the JavaScript continuation handles the answer.           *)
(***************************************************************************)
EXTENDS Integers, Sequences, FiniteSets, TLC

(***************************************************************************)
(* Values                                                                  *)
(***************************************************************************)
ZERO_HASH == "0000"

\* SQL NULL in a height column (heights of rows are >= 0) and in a txid column.
NULL == -1

NULL_TXID == "null"

\* JavaScript undefined, as the value of a parameter nobody passed.
UNDEFINED == [undefined |-> TRUE]

\* 0xFFFFFFFF, the output index of a coinbase input: all 32 bits set, which
\* is -1 in the 32-bit integers of the model checker.  No output has it.
COINBASE_INDEX == -1

\* '\\x' + txid: the bytea literal the SQL parameters are written in.
Bytea(hex) == "\\x" \o hex

SeqToSet(s) == {s[i] : i \in 1..Len(s)}

\* _.uniq / _.union / _.without / _.difference on arrays, order kept.
RECURSIVE Uniq(_)
Uniq(s) ==
  IF s = <<>> THEN <<>>
  ELSE LET r == Uniq(SubSeq(s, 1, Len(s) - 1))
       IN IF s[Len(s)] \in SeqToSet(r) THEN r ELSE Append(r, s[Len(s)])

Union(a, b) == Uniq(a \o b)

Without(s, x) == SelectSeq(s, LAMBDA y : y # x)

Difference(s, removed) == SelectSeq(s, LAMBDA y : y \notin removed)

(***************************************************************************)
(* The node's universe: a block tree with two branches above B0, and the   *)
(* transactions its blocks and its mempool can hold.  outputs[k+1] is the  *)
(* address set script2addresses gives for output k.                        *)
(***************************************************************************)
Coinbase == [prevTxId |-> ZERO_HASH, outputIndex |-> COINBASE_INDEX]

Tx ==
  [ cb0  |-> [inputs |-> <<Coinbase>>, outputs |-> <<{"a0"}, {"a1"}>>],
    cb1a |-> [inputs |-> <<Coinbase>>, outputs |-> <<{"m"}>>],
    cb1b |-> [inputs |-> <<Coinbase>>, outputs |-> <<{"m"}>>],
    cb2a |-> [inputs |-> <<Coinbase>>, outputs |-> <<{"m"}>>],
    cb2b |-> [inputs |-> <<Coinbase>>, outputs |-> <<{"m"}>>],
    P    |-> [inputs |-> <<[prevTxId |-> "cb0", outputIndex |-> 0]>>,
              outputs |-> <<{"p"}>>],
    D    |-> [inputs |-> <<[prevTxId |-> "cb0", outputIndex |-> 0]>>,
              outputs |-> <<{"d"}>>],
    Q    |-> [inputs |-> <<[prevTxId |-> "cb0", outputIndex |-> 1]>>,
              outputs |-> <<{"q"}>>],
    C    |-> [inputs |-> <<[prevTxId |-> "P", outputIndex |-> 0],
                           [prevTxId |-> "Q", outputIndex |-> 0]>>,
              outputs |-> <<{"c"}>>] ]

TxIds == DOMAIN Tx

\* The transactions a node relays: everything but the coinbases.
MempoolTxIds == {"P", "D", "Q", "C"}

Block ==
  [ B0  |-> [prevHash |-> ZERO_HASH, txs |-> <<"cb0">>],
    B1a |-> [prevHash |-> "B0",  txs |-> <<"cb1a", "P">>],
    B1b |-> [prevHash |-> "B0",  txs |-> <<"cb1b", "D">>],
    B2a |-> [prevHash |-> "B1a", txs |-> <<"cb2a", "Q">>],
    B2b |-> [prevHash |-> "B1b", txs |-> <<"cb2b">>] ]

BlockIds == DOMAIN Block

\* The chains the node can be on: the paths of the block tree from B0.
NodeChains ==
  { <<"B0">>, <<"B0", "B1a">>, <<"B0", "B1b">>,
    <<"B0", "B1a", "B2a">>, <<"B0", "B1b", "B2b">> }

PrevTxIds(txid) ==
  Uniq([i \in 1..Len(Tx[txid].inputs) |-> Tx[txid].inputs[i].prevTxId])

\* The parents a transaction really has (a coinbase input names none).
Parents(txid) == SeqToSet(PrevTxIds(txid)) \ {ZERO_HASH}

ChainTxs(c) == UNION {SeqToSet(Block[c[i]].txs) : i \in 1..Len(c)}


RECURSIVE SetToSeq(_)
SetToSeq(S) ==
  IF S = {} THEN <<>>
  ELSE LET x == CHOOSE y \in S : TRUE IN <<x>> \o SetToSeq(S \ {x})

MaxOf(S) == CHOOSE x \in S : \A y \in S : y <= x

(***************************************************************************)
(* The store.  blocks: height -> hash (the row's txids are the block's);   *)
(* transactions: txid -> height or NULL; history: <<address, txid, index>> *)
(* -> [height, itxid, iheight].  The statements are those of scanner/sql,  *)
(* written after the specification's account of them.                      *)
(***************************************************************************)
EmptyTable == [x \in {} |-> x]

EmptyDb ==
  [blocks |-> EmptyTable, transactions |-> EmptyTable, history |-> EmptyTable]

Gt(h, f) == h # NULL /\ h > f

HistoryKeys(d, txid, index) ==
  {k \in DOMAIN d.history : k[2] = txid /\ k[3] = index}

OutputKeys(d, txid) == {k \in DOMAIN d.history : k[2] = txid}

\* RETURNING address
Addresses(keys) == SetToSeq({k[1] : k \in keys})

SelectBlocksLatest(d) ==
  IF DOMAIN d.blocks = {} THEN <<>>
  ELSE LET h == MaxOf(DOMAIN d.blocks)
       IN <<[hash |-> d.blocks[h], height |-> h]>>

SelectBlocksByHeight(d, height) ==
  IF height \in DOMAIN d.blocks
  THEN <<[hash |-> d.blocks[height], height |-> height]>>
  ELSE <<>>

RECURSIVE RowsAbove(_, _, _)
RowsAbove(d, f, h) ==
  IF DOMAIN d.blocks = {} \/ h > MaxOf(DOMAIN d.blocks) THEN <<>>
  ELSE (IF h \in DOMAIN d.blocks /\ h > f
        THEN <<[hash |-> d.blocks[h], height |-> h]>> ELSE <<>>)
       \o RowsAbove(d, f, h + 1)

SelectFromHeight(d, f) == RowsAbove(d, f, 0)

DeleteBlocksFromHeight(d, f) ==
  [d EXCEPT !.blocks = [h \in {x \in DOMAIN d.blocks : ~(x > f)} |-> d.blocks[h]]]

UpdateTransactionsMakeUnconfirmed(d, f) ==
  [d EXCEPT !.transactions =
     [t \in DOMAIN d.transactions |->
        IF Gt(d.transactions[t], f) THEN NULL ELSE d.transactions[t]]]

UpdateHistoryMakeOutputsUnconfirmed(d, f) ==
  [d EXCEPT !.history =
     [k \in DOMAIN d.history |->
        IF Gt(d.history[k].height, f)
        THEN [d.history[k] EXCEPT !.height = NULL] ELSE d.history[k]]]

\* makeInputsUnconfirmed clearing the spender with its height.
UpdateHistoryMakeInputsUnconfirmedForgetsSpender(d, f) ==
  [d EXCEPT !.history =
     [k \in DOMAIN d.history |->
        IF Gt(d.history[k].iheight, f)
        THEN [d.history[k] EXCEPT !.itxid = NULL_TXID, !.iheight = NULL]
        ELSE d.history[k]]]

UpdateHistoryMakeInputsUnconfirmed(d, f) ==
  [d EXCEPT !.history =
     [k \in DOMAIN d.history |->
        IF Gt(d.history[k].iheight, f)
        THEN [d.history[k] EXCEPT !.iheight = NULL] ELSE d.history[k]]]

SelectTransactionsExists(d, txid) == txid \in DOMAIN d.transactions

SelectTransactionsExistsMany(d, txids) ==
  {t \in SeqToSet(txids) : t \in DOMAIN d.transactions}

SelectTransactionsUnconfirmed(d) ==
  SetToSeq({t \in DOMAIN d.transactions : d.transactions[t] = NULL})

PutTransaction(d, txid, height) ==
  [d EXCEPT !.transactions =
     [t \in DOMAIN d.transactions \cup {txid} |->
        IF t = txid THEN height ELSE d.transactions[t]]]

InsertTransactionsUnconfirmed(d, txid) == PutTransaction(d, txid, NULL)

InsertTransactionsConfirmed(d, txid, height) == PutTransaction(d, txid, height)

PutHistory(d, address, txid, index, height) ==
  [d EXCEPT !.history =
     [k \in DOMAIN d.history \cup {<<address, txid, index>>} |->
        IF k = <<address, txid, index>>
        THEN [height |-> height, itxid |-> NULL_TXID, iheight |-> NULL]
        ELSE d.history[k]]]

InsertHistoryUnconfirmedOutput(d, address, txid, index) ==
  PutHistory(d, address, txid, index, NULL)

InsertHistoryConfirmedOutput(d, address, txid, index, height) ==
  PutHistory(d, address, txid, index, height)

UpdateHistoryAddUnconfirmedInput(d, txid, prevTxId, outputIndex) ==
  [d EXCEPT !.history =
     [k \in DOMAIN d.history |->
        IF k \in HistoryKeys(d, prevTxId, outputIndex)
        THEN [d.history[k] EXCEPT !.itxid = txid, !.iheight = NULL]
        ELSE d.history[k]]]

UpdateHistoryAddConfirmedInput(d, txid, height, prevTxId, outputIndex) ==
  [d EXCEPT !.history =
     [k \in DOMAIN d.history |->
        IF k \in HistoryKeys(d, prevTxId, outputIndex)
        THEN [d.history[k] EXCEPT !.itxid = txid, !.iheight = height]
        ELSE d.history[k]]]

UpdateHistoryMakeInputConfirmed(d, height, prevTxId, outputIndex) ==
  [d EXCEPT !.history =
     [k \in DOMAIN d.history |->
        IF k \in HistoryKeys(d, prevTxId, outputIndex)
        THEN [d.history[k] EXCEPT !.iheight = height]
        ELSE d.history[k]]]

UpdateTransactionsMakeConfirmed(d, height, txid) ==
  [d EXCEPT !.transactions =
     [t \in DOMAIN d.transactions |->
        IF t = txid THEN height ELSE d.transactions[t]]]

UpdateHistoryMakeOutputConfirmed(d, height, txid) ==
  [d EXCEPT !.history =
     [k \in DOMAIN d.history |->
        IF k[2] = txid THEN [d.history[k] EXCEPT !.height = height]
        ELSE d.history[k]]]

InsertBlocksRow(d, height, hash) ==
  [d EXCEPT !.blocks =
     [h \in DOMAIN d.blocks \cup {height} |->
        IF h = height THEN hash ELSE d.blocks[h]]]

\* The three statements of the mempool removal take bytea literals.
Unhex(ids) == {t \in TxIds : Bytea(t) \in SeqToSet(ids)}

DeleteTransactionsUnconfirmedByTxIds(d, ids) ==
  [d EXCEPT !.transactions =
     [t \in {x \in DOMAIN d.transactions :
               ~(x \in Unhex(ids) /\ d.transactions[x] = NULL)} |->
        d.transactions[t]]]

DeleteHistoryUnconfirmedByTxIds(d, ids) ==
  [d EXCEPT !.history =
     [k \in {x \in DOMAIN d.history :
               ~(x[2] \in Unhex(ids) /\ d.history[x].height = NULL)} |->
        d.history[k]]]

UpdateHistoryDeleteUnconfirmedInputsByTxIds(d, ids) ==
  [d EXCEPT !.history =
     [k \in DOMAIN d.history |->
        IF d.history[k].itxid \in Unhex(ids)
        THEN [d.history[k] EXCEPT !.itxid = NULL_TXID, !.iheight = NULL]
        ELSE d.history[k]]]

(***************************************************************************)
(* Service: the event facade.  messages.notify(channel, payload, opts)     *)
(* delivers on commit of opts.client's transaction when opts names a       *)
(* client, and at once when it names none.                                 *)
(***************************************************************************)
Opts(client) == [client |-> client]

JsBool(b) == [bool |-> b]

\* JavaScript truthiness of an argument: undefined and false are falsy, an
\* object is truthy.
Truthy(v) == v # UNDEFINED /\ v # JsBool(FALSE)

Notify(channel, payload, opts) ==
  [channel |-> channel, payload |-> payload, opts |-> opts]

IsTransactional(n) == "client" \in DOMAIN n.opts

Event(n) == [channel |-> n.channel, payload |-> n.payload]

BroadcastBlock(hash, height, opts) ==
  Notify("broadcastblock", [hash |-> hash, height |-> height], opts)

BroadcastTx(txId, blockHash, blockHeight, opts) ==
  Notify("broadcasttx",
         [txId |-> txId, blockHash |-> blockHash, blockHeight |-> blockHeight],
         opts)

BroadcastAddress(address, txId, blockHash, blockHeight, opts) ==
  Notify("broadcastaddress",
         [address |-> address, txId |-> txId,
          blockHash |-> blockHash, blockHeight |-> blockHeight],
         opts)

AddTx(txId, isConfirmed, opts) ==
  Notify("addtx", [txId |-> txId, unconfirmed |-> ~Truthy(isConfirmed)], opts)

RemoveTx(txId, isConfirmed, opts) ==
  Notify("removetx", [txId |-> txId, unconfirmed |-> ~Truthy(isConfirmed)], opts)

AddBlock(hash, opts) == Notify("addblock", [hash |-> hash], opts)

RemoveBlock(hash, opts) == Notify("removeblock", [hash |-> hash], opts)

\* What subscribers see of the notifications one database transaction
\* issued: those sent without a client at once, the others if it commits.
Immediate(notes) == SelectSeq(notes, LAMBDA n : ~IsTransactional(n))

Deferred(notes) == SelectSeq(notes, LAMBDA n : IsTransactional(n))

RECURSIVE Events(_)
Events(notes) ==
  IF notes = <<>> THEN <<>>
  ELSE <<Event(Head(notes))>> \o Events(Tail(notes))

Delivered(notes, committed) ==
  Events(Immediate(notes)) \o (IF committed THEN Events(Deferred(notes)) ELSE <<>>)

\* The txids the addtx events among events name.
AddTxIds(events) ==
  {events[i].payload.txId : i \in {j \in 1..Len(events) : events[j].channel = "addtx"}}

(***************************************************************************)
(* Sync                                                                    *)
(***************************************************************************)
RECURSIVE Flatten(_)
Flatten(ss) == IF ss = <<>> THEN <<>> ELSE Head(ss) \o Flatten(Tail(ss))

\* _getAddresses(output)
GetAddresses(output) == SetToSeq(output)

\* The (output index, address) pairs of a transaction, in output order.
OutputAddresses(txid) ==
  Flatten([i \in 1..Len(Tx[txid].outputs) |->
             LET as == GetAddresses(Tx[txid].outputs[i])
             IN [j \in 1..Len(as) |-> [index |-> i - 1, address |-> as[j]]]])

\* _getLatest
GetLatest(d) ==
  LET rows == SelectBlocksLatest(d)
  IN IF Len(rows) = 0 THEN [hash |-> ZERO_HASH, height |-> -1] ELSE rows[1]

\* _importUnconfirmedTx, "import outputs"
RECURSIVE ImportUnconfirmedOutputs(_, _, _)
ImportUnconfirmedOutputs(st, txid, i) ==
  LET oas == OutputAddresses(txid)
  IN IF i > Len(oas) THEN st
     ELSE ImportUnconfirmedOutputs(
            [db |-> InsertHistoryUnconfirmedOutput(st.db, oas[i].address, txid, oas[i].index),
             notes |-> Append(st.notes,
                              BroadcastAddress(oas[i].address, txid, NULL_TXID, NULL,
                                               Opts("client")))],
            txid, i + 1)

\* _importUnconfirmedTx, "import inputs"
RECURSIVE ImportUnconfirmedInputs(_, _, _)
ImportUnconfirmedInputs(st, txid, i) ==
  IF i > Len(Tx[txid].inputs) THEN st
  ELSE LET input == Tx[txid].inputs[i]
           rows == Addresses(HistoryKeys(st.db, input.prevTxId, input.outputIndex))
       IN ImportUnconfirmedInputs(
            [db |-> UpdateHistoryAddUnconfirmedInput(st.db, txid, input.prevTxId,
                                                     input.outputIndex),
             notes |-> st.notes \o
                       [j \in 1..Len(rows) |->
                          BroadcastAddress(rows[j], txid, NULL_TXID, NULL, Opts("client"))]],
            txid, i + 1)

\* _importUnconfirmedTx without lines 133-147: a transaction is imported
\* whether its inputs are stored or not.
ImportUnconfirmedTxBodyNoDeps(d, txid) ==
  LET s0 == [db |-> InsertTransactionsUnconfirmed(d, txid), notes |-> <<>>]
      s1 == ImportUnconfirmedOutputs(s0, txid, 1)
      s2 == [s1 EXCEPT !.notes = s1.notes \o
                 << BroadcastTx(txid, NULL_TXID, NULL, Opts("client")),
                    AddTx(txid, Opts("client"), UNDEFINED) >>]
      s3 == ImportUnconfirmedInputs(s2, txid, 1)
  IN IF SelectTransactionsExists(d, txid)
     THEN [result |-> "exists", deps |-> <<>>, db |-> d, notes |-> <<>>]
     ELSE [result |-> "import", deps |-> <<>>, db |-> s3.db, notes |-> s3.notes]

\* The body of the database transaction of _importUnconfirmedTx:
\* result "exists" (return true at line 130), "orphan" (return false at line
\* 146, deps the missing inputs) or "import" (the writes and notifications).
ImportUnconfirmedTxBody(d, txid) ==
  LET prevTxIds == PrevTxIds(txid)
      deps == Difference(prevTxIds, SelectTransactionsExistsMany(d, prevTxIds))
      s0 == [db |-> InsertTransactionsUnconfirmed(d, txid), notes |-> <<>>]
      s1 == ImportUnconfirmedOutputs(s0, txid, 1)
      s2 == [s1 EXCEPT !.notes = s1.notes \o
                 << BroadcastTx(txid, NULL_TXID, NULL, Opts("client")),
                    AddTx(txid, Opts("client"), UNDEFINED) >>]
      s3 == ImportUnconfirmedInputs(s2, txid, 1)
  IN IF SelectTransactionsExists(d, txid)
     THEN [result |-> "exists", deps |-> <<>>, db |-> d, notes |-> <<>>]
     ELSE IF Len(deps) > 0
     THEN [result |-> "orphan", deps |-> deps, db |-> d, notes |-> <<>>]
     ELSE [result |-> "import", deps |-> <<>>, db |-> s3.db, notes |-> s3.notes]

\* _importBlock, "import outputs only if transaction not imported yet"
RECURSIVE ImportConfirmedOutputs(_, _, _, _, _)
ImportConfirmedOutputs(st, txid, hash, height, i) ==
  LET oas == OutputAddresses(txid)
  IN IF i > Len(oas) THEN st
     ELSE ImportConfirmedOutputs(
            [st EXCEPT
               !.db = InsertHistoryConfirmedOutput(st.db, oas[i].address, txid,
                                                   oas[i].index, height),
               !.notes = Append(st.notes,
                                BroadcastAddress(oas[i].address, txid, hash, height,
                                                 Opts("client")))],
            txid, hash, height, i + 1)

\* "import transactions & outputs" without line 262: a transaction already
\* stored is made confirmed and its outputs are left as they are.
ImportBlockTxKeepsOutputs(st, txid, hash, height) ==
  LET after == << BroadcastTx(txid, hash, height, Opts("client")),
                  AddTx(txid, Opts("client"), UNDEFINED) >>
  IN IF SelectTransactionsExists(st.db, txid)
     THEN [db |-> UpdateTransactionsMakeConfirmed(st.db, height, txid),
           existingTx |-> st.existingTx \cup {txid},
           notes |-> st.notes \o after]
     ELSE LET out == ImportConfirmedOutputs(
                       [st EXCEPT !.db = InsertTransactionsConfirmed(st.db, txid, height)],
                       txid, hash, height, 1)
          IN [out EXCEPT !.notes = out.notes \o after]

\* _importBlock, "import transactions & outputs", for one transaction
ImportBlockTx(st, txid, hash, height) ==
  LET after == << BroadcastTx(txid, hash, height, Opts("client")),
                  AddTx(txid, Opts("client"), UNDEFINED) >>
  IN IF SelectTransactionsExists(st.db, txid)
     THEN LET rows == Addresses(OutputKeys(st.db, txid))
          IN [db |-> UpdateHistoryMakeOutputConfirmed(
                       UpdateTransactionsMakeConfirmed(st.db, height, txid),
                       height, txid),
              existingTx |-> st.existingTx \cup {txid},
              notes |-> st.notes \o after \o
                        [j \in 1..Len(rows) |->
                           BroadcastAddress(rows[j], txid, hash, height, Opts("client"))]]
     ELSE LET out == ImportConfirmedOutputs(
                       [st EXCEPT !.db = InsertTransactionsConfirmed(st.db, txid, height)],
                       txid, hash, height, 1)
          IN [out EXCEPT !.notes = out.notes \o after]

RECURSIVE ImportBlockTxs(_, _, _, _)
ImportBlockTxs(st, hash, height, i) ==
  IF i > Len(Block[hash].txs) THEN st
  ELSE ImportBlockTxs(ImportBlockTx(st, Block[hash].txs[i], hash, height),
                      hash, height, i + 1)

\* _importBlock, "skip coinbase"
IsCoinbaseInput(input, index) ==
  /\ index = 0
  /\ input.outputIndex = COINBASE_INDEX
  /\ input.prevTxId = ZERO_HASH

\* "import inputs" without lines 319-324: the inputs of a transaction that
\* was already stored are left as the unconfirmed import wrote them.
ImportBlockInputSkipsExisting(st, txid, hash, height, index) ==
  LET input == Tx[txid].inputs[index + 1]
      rows == Addresses(HistoryKeys(st.db, input.prevTxId, input.outputIndex))
  IN IF IsCoinbaseInput(input, index) \/ txid \in st.existingTx THEN st
     ELSE [st EXCEPT
             !.db = UpdateHistoryAddConfirmedInput(st.db, txid, height,
                                                   input.prevTxId, input.outputIndex),
             !.notes = st.notes \o
                       [j \in 1..Len(rows) |->
                          BroadcastAddress(rows[j], txid, hash, height, Opts("client"))]]

\* _importBlock, "import inputs", for one input
ImportBlockInput(st, txid, hash, height, index) ==
  LET input == Tx[txid].inputs[index + 1]
      rows == Addresses(HistoryKeys(st.db, input.prevTxId, input.outputIndex))
  IN IF IsCoinbaseInput(input, index) THEN st
     ELSE [st EXCEPT
             !.db = IF txid \in st.existingTx
                    THEN UpdateHistoryMakeInputConfirmed(st.db, height, input.prevTxId,
                                                         input.outputIndex)
                    ELSE UpdateHistoryAddConfirmedInput(st.db, txid, height,
                                                        input.prevTxId, input.outputIndex),
             !.notes = st.notes \o
                       [j \in 1..Len(rows) |->
                          BroadcastAddress(rows[j], txid, hash, height, Opts("client"))]]

RECURSIVE ImportBlockInputs(_, _, _, _, _)
ImportBlockInputs(st, hash, height, i, index) ==
  IF i > Len(Block[hash].txs) THEN st
  ELSE IF index >= Len(Tx[Block[hash].txs[i]].inputs)
  THEN ImportBlockInputs(st, hash, height, i + 1, 0)
  ELSE ImportBlockInputs(ImportBlockInput(st, Block[hash].txs[i], hash, height, index),
                         hash, height, i, index + 1)

\* _importBlock's withLock key set
AllTxIds(hash) ==
  Uniq(Flatten([i \in 1..Len(Block[hash].txs) |->
                  [j \in 1..Len(Tx[Block[hash].txs[i]].inputs) |->
                     Tx[Block[hash].txs[i]].inputs[j].prevTxId]])
       \o Block[hash].txs)

\* _importBlock without line 345: the block is stored and not broadcast.
ImportBlockUnannounced(d, hash, height) ==
  LET s0 == [db |-> InsertBlocksRow(d, height, hash), existingTx |-> {}, notes |-> <<>>]
      s1 == ImportBlockTxs(s0, hash, height, 1)
      s2 == [s1 EXCEPT !.notes = Append(s1.notes, AddBlock(hash, Opts("client")))]
      s3 == ImportBlockInputs(s2, hash, height, 1, 0)
  IN [db |-> s3.db, notes |-> s3.notes]

\* The statements and notifications of _importBlock(block, height, client).
ImportBlock(d, hash, height) ==
  LET s0 == [db |-> InsertBlocksRow(d, height, hash), existingTx |-> {}, notes |-> <<>>]
      s1 == ImportBlockTxs(s0, hash, height, 1)
      s2 == [s1 EXCEPT !.notes = s1.notes \o
                 << BroadcastBlock(hash, height, Opts("client")),
                    AddBlock(hash, Opts("client")) >>]
      s3 == ImportBlockInputs(s2, hash, height, 1, 0)
  IN [db |-> s3.db, notes |-> s3.notes]

\* The reorg rollback without line 402: the block rows go, the transaction
\* rows keep their heights.
ReorgRollbackKeepsTransactions(d, latest) ==
  LET args == latest.height - 1
      rows == SelectFromHeight(d, args)
      d1 == DeleteBlocksFromHeight(d, args)
      d3 == UpdateHistoryMakeOutputsUnconfirmed(d1, args)
      d4 == UpdateHistoryMakeInputsUnconfirmed(d3, args)
  IN [db |-> d4,
      notes |-> [j \in 1..Len(rows) |-> RemoveBlock(rows[j].hash, Opts("client"))]]

\* The reorg rollback of _runBlockImport for the local latest it walked back to.
ReorgRollback(d, latest) ==
  LET args == latest.height - 1
      rows == SelectFromHeight(d, args)
      d1 == DeleteBlocksFromHeight(d, args)
      d2 == UpdateTransactionsMakeUnconfirmed(d1, args)
      d3 == UpdateHistoryMakeOutputsUnconfirmed(d2, args)
      d4 == UpdateHistoryMakeInputsUnconfirmed(d3, args)
  IN [db |-> d4,
      notes |-> [j \in 1..Len(rows) |-> RemoveBlock(rows[j].hash, Opts("client"))]]

\* The removal transaction of the mempool pass for rTxIds (plain txids).
MempoolRemove(d, rTxIds) ==
  LET ids == [j \in 1..Len(rTxIds) |-> Bytea(rTxIds[j])]
      d1 == DeleteTransactionsUnconfirmedByTxIds(d, ids)
      d2 == DeleteHistoryUnconfirmedByTxIds(d1, ids)
      d3 == UpdateHistoryDeleteUnconfirmedInputsByTxIds(d2, ids)
  IN [db |-> d3,
      notes |-> [j \in 1..Len(ids) |-> RemoveTx(ids[j], Opts("client"), UNDEFINED)]]

(***************************************************************************)
(* The node: the chain it is on and its mempool.  A node keeps its mempool *)
(* valid for its chain: no confirmed transaction, no double spend, every   *)
(* parent confirmed or in the mempool.                                     *)
(***************************************************************************)
Spends(txid) ==
  {<<Tx[txid].inputs[i].prevTxId, Tx[txid].inputs[i].outputIndex>> :
     i \in 1..Len(Tx[txid].inputs)}

Conflict(t, u) == t # u /\ Spends(t) \cap Spends(u) # {}

ValidIn(t, c, m) ==
  /\ t \in MempoolTxIds \ ChainTxs(c)
  /\ Parents(t) \subseteq ChainTxs(c) \cup m
  /\ \A u \in ChainTxs(c) \cup m : ~Conflict(t, u)

RECURSIVE Prune(_, _)
Prune(c, m) ==
  LET keep == {t \in m : ValidIn(t, c, m)}
  IN IF keep = m THEN m ELSE Prune(c, keep)

NodeLatest(c) == [hash |-> c[Len(c)], height |-> Len(c) - 1]

\* getTx answers for a transaction the node has, in a block or in its mempool.
NodeHasTx(txid, c, m) == txid \in ChainTxs(c) \cup m

(***************************************************************************)
(* State                                                                   *)
(***************************************************************************)
VARIABLES
  chain,              \* the node's chain, a sequence of block hashes
  mempool,            \* the node's mempool, a set of txids
  nodeOps,            \* how many more times the node changes: [chain, tx]
  db,                 \* the store
  published,          \* the events delivered to subscribers, in order, since
                      \* the block part of the last run ended
  _latest,            \* Sync._latest
  _blockchainLatest,  \* Sync._blockchainLatest
  _orphanedTx,        \* Sync._orphanedTx = [deps, orphans]
  _lock,              \* Sync._lock, the SmartLock
  main,               \* where run() is
  runner,             \* the running _runBlockImport: its position and locals
  pending,            \* _runBlockImport calls queued behind the running one
  imp,                \* the _runTxImport in flight for each txid
  immediate,          \* the setImmediate queue
  fails,              \* how many more I/O requests fail
  mark,               \* what the store and the node were when the run began
  announced,          \* the txids an addtx event has been delivered for
  ccScanned,          \* the color scanner's table: txid -> [blockhash, height]
  ccLock,             \* the color scanner's withLock: [launched, queue]
  ccActive,           \* the color scanner's bodies that are running
  ccMain              \* where the color scanner's run() is

\* The color scanner's state; the synchronizer leaves it alone.
colorVars == << ccScanned, ccLock, ccActive, ccMain >>

vars ==
  << chain, mempool, nodeOps, db, published, _latest, _blockchainLatest,
     _orphanedTx, _lock, main, runner, pending, imp, immediate, fails, mark,
     announced, ccScanned, ccLock, ccActive, ccMain >>

\* Bounds of the model: how often the node switches chain when nothing else
\* disturbs the run, how many disturbances (a chain switch, an accepted
\* transaction, a failed I/O request) the other behaviours have, and how many
\* I/O requests fail.
MaxChainOps == 2

MaxDisturbances == 1

MaxFails == 1

Budget(c, t, f) == [nodeOps |-> [chain |-> c, tx |-> t], fails |-> f]

\* The disturbances of a behaviour that starts from chain c and mempool m:
\* one of any kind; or chain switches and failures when no transaction is
\* about; or an accepted transaction and a chain switch when the node starts
\* at the genesis block with one transaction.
Budgets(c, m) ==
  {Budget(MaxDisturbances, 0, 0), Budget(0, MaxDisturbances, 0),
   Budget(0, 0, MaxDisturbances)}
    \cup (IF m = {} THEN {Budget(MaxChainOps, 0, MaxFails)} ELSE {})
    \cup (IF Len(c) = 1 /\ Cardinality(m) = 1
          THEN {Budget(MaxDisturbances, MaxDisturbances, 0)} ELSE {})

Put(fn, key, val) ==
  [x \in DOMAIN fn \cup {key} |-> IF x = key THEN val ELSE fn[x]]

Del(fn, key) == [x \in DOMAIN fn \ {key} |-> fn[x]]

Get(fn, key, default) == IF key \in DOMAIN fn THEN fn[key] ELSE default

NoRes == [result |-> "none", deps |-> <<>>]

IdleImport == [pc |-> "idle", res |-> NoRes, again |-> FALSE, bar |-> 0]

IdleRunner ==
  [pc |-> "idle", latest |-> [hash |-> ZERO_HASH, height |-> -1], block |-> "none",
   res |-> [hash |-> ZERO_HASH, height |-> -1], nTxIds |-> <<>>, sTxIds |-> <<>>,
   bar |-> 0]

NoMark == [blocks0 |-> EmptyTable, chain0 |-> <<>>, clean |-> FALSE]

\* A node with a chain and a mempool, an empty store, and Sync constructed.
Constructed ==
  /\ chain \in NodeChains
  /\ mempool \in {m \in SUBSET MempoolTxIds : Prune(chain, m) = m}
  /\ db = EmptyDb
  /\ published = <<>>
  /\ _latest = [hash |-> "null", height |-> NULL]
  /\ _blockchainLatest = [hash |-> "null", height |-> NULL]
  /\ _orphanedTx = [deps |-> EmptyTable, orphans |-> EmptyTable]
  /\ _lock = [holders |-> {}, reorg |-> "free"]
  /\ main = "start"
  /\ runner = IdleRunner
  /\ pending = 0
  /\ imp = [t \in MempoolTxIds |-> IdleImport]
  /\ immediate = <<>>
  /\ mark = NoMark
  /\ announced = {}

\* The color scanner is not started.
ColorOff ==
  /\ ccScanned = EmptyTable
  /\ ccLock = [launched |-> 0, queue |-> <<>>]
  /\ ccActive = <<>>
  /\ ccMain = "off"

Init ==
  /\ Constructed
  /\ ColorOff
  /\ \E b \in Budgets(chain, mempool) : nodeOps = b.nodeOps /\ fails = b.fails

(***************************************************************************)
(* SmartLock (lib/util): withLock(keys, body) runs body once no running    *)
(* body holds one of the keys and no reorgLock is waiting or running;      *)
(* reorgLock(body) waits for the running bodies and keeps new ones out.    *)
(***************************************************************************)
\* The key set each holder passes to withLock.
LockKeys(holder) ==
  IF holder = "block" THEN SeqToSet(AllTxIds(runner.block))
  ELSE SeqToSet(PrevTxIds(holder) \o <<holder>>)

HeldKeys == UNION {LockKeys(h) : h \in _lock.holders}

\* withLock without its keys: a body waits for the reorgLock only.
CanLockAnyKeys(holder) == _lock.reorg = "free"

\* withLock without the reorg gate: a body waits for its keys only.
CanLockDuringReorg(holder) == LockKeys(holder) \cap HeldKeys = {}

CanLock(holder) ==
  /\ _lock.reorg = "free"
  /\ LockKeys(holder) \cap HeldKeys = {}

Acquire(holder) == [_lock EXCEPT !.holders = @ \cup {holder}]

Release(holder) == [_lock EXCEPT !.holders = @ \ {holder}]

(***************************************************************************)
(* The setImmediate queue.  A continuation of an I/O request issued while  *)
(* bar callbacks were queued runs after them.                              *)
(***************************************************************************)
Bar(q) == Len(q)

Lower(b) == IF b > 0 THEN b - 1 ELSE 0

\* _runTxImport(txid) is called: getTx, then the import.  A call made while
\* an import of the same txid is in flight runs behind it.
CallRunTxImport(im, txid, q, has) ==
  IF ~has THEN im
  ELSE IF im[txid].pc = "idle"
  THEN [im EXCEPT ![txid] = [IdleImport EXCEPT !.pc = "lock", !.bar = Bar(q)]]
  ELSE [im EXCEPT ![txid].again = TRUE]

(***************************************************************************)
(* The node changes: it moves to another chain (a new block, a reorg) and  *)
(* emits 'block'; it accepts a transaction, which replaces the mempool     *)
(* transactions it conflicts with, and emits 'tx'.  Sync listens once      *)
(* run() has set its handlers.                                             *)
(***************************************************************************)
BeginRun(q) == [IdleRunner EXCEPT !.pc = "getLatest", !.bar = Bar(q)]

\* @makeConcurrent({concurrency: 1}) on _runBlockImport: a call starts the
\* body when fewer than concurrency bodies are running and waits in the
\* decorator's queue otherwise; a body that ends starts the oldest waiting call.
Concurrency == 1

\* The decorator without its limit: every call starts the body at once.
CanLaunchUnlimited(launched) == TRUE

\* withLock that lets a second body in.
CanLaunchTwo(launched) == launched < Concurrency + 1

CanLaunch(launched) == launched < Concurrency

NewMark(d, c) == [blocks0 |-> d.blocks, chain0 |-> c, clean |-> TRUE]

Unclean == IF runner.pc = "idle" THEN mark ELSE [mark EXCEPT !.clean = FALSE]

NodeNewChain(c) ==
  /\ nodeOps.chain > 0
  /\ c # chain
  /\ chain' = c
  /\ mempool' = Prune(c, mempool)
  /\ nodeOps' = [nodeOps EXCEPT !.chain = @ - 1]
  /\ IF main # "done"
     THEN /\ mark' = Unclean
          /\ UNCHANGED <<runner, pending>>
     ELSE IF CanLaunch(IF runner.pc = "idle" THEN 0 ELSE 1)
     THEN /\ runner' = BeginRun(immediate)
          /\ mark' = NewMark(db, c)
          /\ UNCHANGED pending
     ELSE /\ pending' = pending + 1
          /\ mark' = Unclean
          /\ UNCHANGED runner
  /\ UNCHANGED << db, published, _latest, _blockchainLatest, _orphanedTx, _lock,
                  main, imp, immediate, fails >>
  /\ UNCHANGED announced
  /\ UNCHANGED colorVars

NodeAcceptTx(txid) ==
  LET m == Prune(chain, {u \in mempool : ~Conflict(txid, u)} \cup {txid})
  IN /\ nodeOps.tx > 0
     /\ txid \in MempoolTxIds \ mempool
     /\ txid \in m
     /\ mempool' = m
     /\ nodeOps' = [nodeOps EXCEPT !.tx = @ - 1]
     /\ imp' = IF main = "done" THEN CallRunTxImport(imp, txid, immediate, TRUE) ELSE imp
     /\ UNCHANGED << chain, db, published, _latest, _blockchainLatest, _orphanedTx,
                     _lock, main, runner, pending, immediate, fails, mark >>
     /\ UNCHANGED announced
     /\ UNCHANGED colorVars

(***************************************************************************)
(* run()                                                                   *)
(***************************************************************************)
Run ==
  /\ main = "start"
  /\ main' = "first"
  /\ _latest' = GetLatest(db)
  /\ _blockchainLatest' = NodeLatest(chain)
  /\ runner' = BeginRun(immediate)
  /\ mark' = NewMark(db, chain)
  /\ UNCHANGED << chain, mempool, nodeOps, db, published, _orphanedTx, _lock,
                  pending, imp, immediate, fails >>
  /\ UNCHANGED announced
  /\ UNCHANGED colorVars

(***************************************************************************)
(* _runBlockImport, one action per await                                   *)
(***************************************************************************)
\* line 361
GetLatestRpc ==
  /\ runner.pc = "getLatest"
  /\ runner.bar = 0
  /\ _blockchainLatest' = NodeLatest(chain)
  /\ runner' = [runner EXCEPT !.pc = "synced", !.bar = Bar(immediate)]
  /\ UNCHANGED << chain, mempool, nodeOps, db, published, _latest, _orphanedTx,
                  _lock, main, pending, imp, immediate, fails, mark >>
  /\ UNCHANGED announced
  /\ UNCHANGED colorVars

\* lines 364-375
CheckSynced ==
  LET bl == IF _latest.height = _blockchainLatest.height
            THEN NodeLatest(chain) ELSE _blockchainLatest
  IN /\ runner.pc = "synced"
     /\ runner.bar = 0
     /\ _blockchainLatest' = bl
     /\ runner' = IF _latest.hash = bl.hash
                  THEN [runner EXCEPT !.pc = "mempool", !.bar = Bar(immediate)]
                  ELSE [runner EXCEPT !.pc = "walk", !.latest = _latest,
                                      !.bar = Bar(immediate)]
     /\ UNCHANGED << chain, mempool, nodeOps, db, published, _latest, _orphanedTx,
                     _lock, main, pending, imp, immediate, fails, mark >>
     /\ UNCHANGED announced
     /\ UNCHANGED colorVars

\* lines 376-394: one turn of "find latest block in storage that located in
\* blockchain".  getBlock throws for a height the node's chain has not;
\* rows[0] of an empty result throws.
DownloadBlock ==
  LET latest == runner.latest
      has == latest.height + 1 < Len(chain)
      block == chain[latest.height + 2]
      rows == SelectBlocksByHeight(db, latest.height - 1)
  IN /\ runner.pc = "walk"
     /\ runner.bar = 0
     /\ IF ~has
        THEN /\ runner' = [runner EXCEPT !.pc = "catch", !.bar = Bar(immediate)]
             /\ UNCHANGED _lock
        ELSE IF latest.hash = Block[block].prevHash
        THEN IF latest.hash # _latest.hash
             THEN /\ runner' = [runner EXCEPT !.pc = "reorgWait", !.block = block,
                                              !.bar = Bar(immediate)]
                  /\ _lock' = [_lock EXCEPT !.reorg = "waiting"]
             ELSE /\ runner' = [runner EXCEPT !.pc = "import", !.block = block,
                                              !.bar = Bar(immediate)]
                  /\ UNCHANGED _lock
        ELSE IF Len(rows) = 0
        THEN /\ runner' = [runner EXCEPT !.pc = "catch", !.bar = Bar(immediate)]
             /\ UNCHANGED _lock
        ELSE /\ runner' = [runner EXCEPT !.latest = rows[1], !.bar = Bar(immediate)]
             /\ UNCHANGED _lock
     /\ UNCHANGED << chain, mempool, nodeOps, db, published, _latest,
                     _blockchainLatest, _orphanedTx, main, pending, imp, immediate,
                     fails, mark >>
     /\ UNCHANGED announced
     /\ UNCHANGED colorVars

\* line 394: reorgLock is granted once no withLock body runs
ReorgAcquire ==
  /\ runner.pc = "reorgWait"
  /\ _lock.holders = {}
  /\ _lock' = [_lock EXCEPT !.reorg = "held"]
  /\ runner' = [runner EXCEPT !.pc = "reorgBody"]
  /\ UNCHANGED << chain, mempool, nodeOps, db, published, _latest,
                  _blockchainLatest, _orphanedTx, main, pending, imp, immediate,
                  fails, mark >>
  /\ UNCHANGED announced
  /\ UNCHANGED colorVars

\* lines 395-415: the rollback transaction, then this._latest
ReorgBody(ok) ==
  LET tx == ReorgRollback(db, runner.latest)
  IN /\ runner.pc = "reorgBody"
     /\ runner.bar = 0
     /\ ok \/ fails > 0
     /\ _lock' = [_lock EXCEPT !.reorg = "free"]
     /\ published' = published \o Delivered(tx.notes, ok)
     /\ IF ok
        THEN /\ db' = tx.db
             /\ _latest' = GetLatest(tx.db)
             /\ runner' = [runner EXCEPT !.pc = "import", !.bar = Bar(immediate)]
             /\ UNCHANGED <<fails, mark>>
        ELSE /\ runner' = [runner EXCEPT !.pc = "catch", !.bar = Bar(immediate)]
             /\ fails' = fails - 1
             /\ mark' = [mark EXCEPT !.clean = FALSE]
             /\ UNCHANGED <<db, _latest>>
     /\ UNCHANGED << chain, mempool, nodeOps, _blockchainLatest, _orphanedTx, main,
                     pending, imp, immediate >>
     /\ announced' = announced \cup AddTxIds(Delivered(tx.notes, ok))
     /\ UNCHANGED colorVars

\* line 238: _importBlock's withLock is granted
ImportBlockAcquire ==
  /\ runner.pc = "import"
  /\ runner.bar = 0
  /\ CanLock("block")
  /\ _lock' = Acquire("block")
  /\ runner' = [runner EXCEPT !.pc = "importBody", !.bar = Bar(immediate)]
  /\ UNCHANGED << chain, mempool, nodeOps, db, published, _latest,
                  _blockchainLatest, _orphanedTx, main, pending, imp, immediate,
                  fails, mark >>
  /\ UNCHANGED announced
  /\ UNCHANGED colorVars

\* lines 239-348: the statements of _importBlock have run in the open
\* transaction; what was notified without a client is out; the lock is free.
ImportBlockBody ==
  LET tx == ImportBlock(db, runner.block, runner.latest.height + 1)
  IN /\ runner.pc = "importBody"
     /\ published' = published \o Delivered(tx.notes, FALSE)
     /\ _lock' = Release("block")
     /\ runner' = [runner EXCEPT !.pc = "importCommit"]
     /\ UNCHANGED << chain, mempool, nodeOps, db, _latest, _blockchainLatest,
                     _orphanedTx, main, pending, imp, immediate, fails, mark >>
     /\ announced' = announced \cup AddTxIds(Delivered(tx.notes, FALSE))
     /\ UNCHANGED colorVars

\* The import transaction leaving its rows in the store when it fails.
ImportBlockCommitKeepsRows(ok) ==
  LET height == runner.latest.height + 1
      tx == ImportBlock(db, runner.block, height)
  IN /\ runner.pc = "importCommit"
     /\ IF ok THEN height \notin DOMAIN db.blocks ELSE fails > 0
     /\ IF ok
        THEN /\ db' = tx.db
             /\ published' = published \o Events(Deferred(tx.notes))
             /\ runner' = [runner EXCEPT !.pc = "importDone", !.res = GetLatest(tx.db)]
             /\ UNCHANGED <<fails, mark>>
        ELSE /\ runner' = [runner EXCEPT !.pc = "catch"]
             /\ fails' = fails - 1
             /\ mark' = [mark EXCEPT !.clean = FALSE]
             /\ db' = tx.db
             /\ UNCHANGED published
     /\ UNCHANGED << chain, mempool, nodeOps, _latest, _blockchainLatest,
                     _orphanedTx, _lock, main, pending, imp, immediate >>
     /\ announced' = announced \cup AddTxIds(IF ok THEN Events(Deferred(tx.notes)) ELSE <<>>)
     /\ UNCHANGED colorVars

\* lines 420-423: _getLatest in the transaction, then it commits or aborts
ImportBlockCommit(ok) ==
  LET height == runner.latest.height + 1
      tx == ImportBlock(db, runner.block, height)
  IN /\ runner.pc = "importCommit"
     /\ IF ok THEN height \notin DOMAIN db.blocks ELSE fails > 0
     /\ IF ok
        THEN /\ db' = tx.db
             /\ published' = published \o Events(Deferred(tx.notes))
             /\ runner' = [runner EXCEPT !.pc = "importDone", !.res = GetLatest(tx.db)]
             /\ UNCHANGED <<fails, mark>>
        ELSE /\ runner' = [runner EXCEPT !.pc = "catch"]
             /\ fails' = fails - 1
             /\ mark' = [mark EXCEPT !.clean = FALSE]
             /\ UNCHANGED <<db, published>>
     /\ UNCHANGED << chain, mempool, nodeOps, _latest, _blockchainLatest,
                     _orphanedTx, _lock, main, pending, imp, immediate >>
     /\ announced' = announced \cup AddTxIds(IF ok THEN Events(Deferred(tx.notes)) ELSE <<>>)
     /\ UNCHANGED colorVars

\* lines 420-433: this._latest, 'latest', and _importOrphaned deferred for
\* every transaction of the block
ImportBlockDone ==
  LET txids == Block[runner.block].txs
      q == immediate \o [i \in 1..Len(txids) |-> <<"orphaned", txids[i]>>]
  IN /\ runner.pc = "importDone"
     /\ runner.bar = 0
     /\ _latest' = runner.res
     /\ immediate' = q
     /\ runner' = [runner EXCEPT !.pc = "synced", !.bar = Bar(q)]
     /\ UNCHANGED << chain, mempool, nodeOps, db, published, _blockchainLatest,
                     _orphanedTx, _lock, main, pending, imp, fails, mark >>
     /\ UNCHANGED announced
     /\ UNCHANGED colorVars

\* lines 437-449: re-read this._latest until the read succeeds
Catch(ok) ==
  /\ runner.pc = "catch"
  /\ runner.bar = 0
  /\ ok \/ fails > 0
  /\ IF ok
     THEN /\ _latest' = GetLatest(db)
          /\ runner' = [runner EXCEPT !.pc = "getLatest", !.bar = Bar(immediate)]
          /\ UNCHANGED fails
     ELSE /\ fails' = fails - 1
          /\ UNCHANGED <<_latest, runner>>
  /\ UNCHANGED << chain, mempool, nodeOps, db, published, _blockchainLatest,
                  _orphanedTx, _lock, main, pending, imp, immediate, mark >>
  /\ UNCHANGED announced
  /\ UNCHANGED colorVars

\* lines 457-462: the node's mempool and the stored unconfirmed txids.  The
\* block part of the run is over; the window on the events starts anew.
MempoolRead ==
  /\ runner.pc = "mempool"
  /\ runner.bar = 0
  /\ runner' = [runner EXCEPT !.pc = "mempoolApply", !.nTxIds = SetToSeq(mempool),
                              !.sTxIds = SelectTransactionsUnconfirmed(db),
                              !.bar = Bar(immediate)]
  /\ published' = <<>>
  /\ UNCHANGED << chain, mempool, nodeOps, db, _latest, _blockchainLatest,
                  _orphanedTx, _lock, main, pending, imp, immediate, fails, mark >>
  /\ UNCHANGED announced
  /\ UNCHANGED colorVars

\* lines 464-492: remove what left the mempool, defer the import of what is
\* new in it; the run is over, and run() or a queued call starts the next.
MempoolApply(ok) ==
  LET rTxIds == Difference(runner.sTxIds, SeqToSet(runner.nTxIds))
      aTxIds == Difference(runner.nTxIds, SeqToSet(runner.sTxIds))
      tx == IF Len(rTxIds) > 0 THEN MempoolRemove(db, rTxIds)
            ELSE [db |-> db, notes |-> <<>>]
      q == immediate \o [i \in 1..Len(aTxIds) |-> <<"runTx", aTxIds[i]>>]
  IN /\ runner.pc = "mempoolApply"
     /\ runner.bar = 0
     /\ ok \/ (fails > 0 /\ Len(rTxIds) > 0)
     /\ published' = published \o Delivered(tx.notes, ok)
     /\ IF ok
        THEN /\ db' = tx.db
             /\ immediate' = q
             /\ IF main = "first"
                THEN /\ main' = "done"
                     /\ runner' = BeginRun(q)
                     /\ mark' = NewMark(tx.db, chain)
                     /\ UNCHANGED pending
                ELSE IF pending > 0
                THEN /\ pending' = pending - 1
                     /\ runner' = BeginRun(q)
                     /\ mark' = NewMark(tx.db, chain)
                     /\ UNCHANGED main
                ELSE /\ runner' = IdleRunner
                     /\ mark' = NoMark
                     /\ UNCHANGED <<main, pending>>
             /\ UNCHANGED fails
        ELSE /\ runner' = [runner EXCEPT !.pc = "mempool", !.bar = Bar(immediate)]
             /\ fails' = fails - 1
             /\ UNCHANGED <<db, immediate, main, pending, mark>>
     /\ UNCHANGED << chain, mempool, nodeOps, _latest, _blockchainLatest,
                     _orphanedTx, _lock, imp >>
     /\ announced' = announced \cup AddTxIds(Delivered(tx.notes, ok))
     /\ UNCHANGED colorVars

(***************************************************************************)
(* _runTxImport / _importUnconfirmedTx                                     *)
(***************************************************************************)
\* line 123: withLock(prevTxIds.concat(txid)) is granted
TxAcquire(txid) ==
  /\ imp[txid].pc = "lock"
  /\ imp[txid].bar = 0
  /\ CanLock(txid)
  /\ _lock' = Acquire(txid)
  /\ imp' = [imp EXCEPT ![txid].pc = "txn", ![txid].bar = Bar(immediate)]
  /\ UNCHANGED << chain, mempool, nodeOps, db, published, _latest,
                  _blockchainLatest, _orphanedTx, main, runner, pending, immediate,
                  fails, mark >>
  /\ UNCHANGED announced
  /\ UNCHANGED colorVars

\* A write of the import waits for the rows an open block transaction wrote.
BlockedByBlock(txid) ==
  /\ runner.pc = "importCommit"
  /\ LockKeys(txid) \cap LockKeys("block") # {}

\* lines 125-197: the database runs the transaction; it commits, or a
\* statement fails and it aborts
TxTransaction(txid, ok) ==
  LET tx == ImportUnconfirmedTxBody(db, txid)
  IN /\ imp[txid].pc = "txn"
     /\ tx.result = "import" => ~BlockedByBlock(txid)
     /\ ok \/ (fails > 0 /\ tx.result = "import")
     /\ published' = published \o Delivered(tx.notes, ok)
     /\ IF ok
        THEN /\ db' = tx.db
             /\ imp' = [imp EXCEPT ![txid].pc = "js",
                          ![txid].res = [result |-> tx.result, deps |-> tx.deps]]
             /\ UNCHANGED fails
        ELSE /\ imp' = [imp EXCEPT ![txid].pc = "js",
                          ![txid].res = [result |-> "failed", deps |-> <<>>]]
             /\ fails' = fails - 1
             /\ UNCHANGED db
     /\ UNCHANGED << chain, mempool, nodeOps, _latest, _blockchainLatest,
                     _orphanedTx, _lock, main, runner, pending, immediate, mark >>
     /\ announced' = announced \cup AddTxIds(Delivered(tx.notes, ok))
     /\ UNCHANGED colorVars

\* lines 141-144: "mark as orphaned and delay"
RECURSIVE AddOrphans(_, _, _)
AddOrphans(orphans, deps, txid) ==
  IF deps = <<>> THEN orphans
  ELSE AddOrphans(Put(orphans, Head(deps),
                      Union(Get(orphans, Head(deps), <<>>), <<txid>>)),
                  Tail(deps), txid)

MarkOrphaned(reg, txid, deps) ==
  [deps |-> Put(reg.deps, txid, deps),
   orphans |-> AddOrphans(reg.orphans, deps, txid)]

\* The continuation: the registry for an orphan (lines 141-146), or
\* setImmediate(_importOrphaned, txid) for an imported one (lines 215-218);
\* the lock is free.
TxContinue(txid) ==
  LET res == imp[txid].res
      imported == res.result \in {"exists", "import"}
      q == IF imported THEN Append(immediate, <<"orphaned", txid>>) ELSE immediate
  IN /\ imp[txid].pc = "js"
     /\ imp[txid].bar = 0
     /\ _lock' = Release(txid)
     /\ _orphanedTx' = IF res.result = "orphan"
                       THEN MarkOrphaned(_orphanedTx, txid, res.deps)
                       ELSE _orphanedTx
     /\ immediate' = q
     /\ imp' = IF imp[txid].again /\ NodeHasTx(txid, chain, mempool)
               THEN [imp EXCEPT ![txid] = [IdleImport EXCEPT !.pc = "lock", !.bar = Bar(q)]]
               ELSE [imp EXCEPT ![txid] = IdleImport]
     /\ UNCHANGED << chain, mempool, nodeOps, db, published, _latest,
                     _blockchainLatest, main, runner, pending, fails, mark >>
     /\ UNCHANGED announced
     /\ UNCHANGED colorVars

(***************************************************************************)
(* _importOrphaned and the setImmediate queue                              *)
(***************************************************************************)
\* lines 99-111, for the orphans from position i on: the registry and the
\* txids whose import is deferred
RECURSIVE CheckOrphans(_, _, _, _)
CheckOrphans(st, orphans, txid, i) ==
  IF i > Len(orphans) THEN st
  ELSE LET orphaned == orphans[i]
           deps == Without(Get(st.reg.deps, orphaned, <<>>), txid)
       IN IF Len(deps) > 0
          THEN CheckOrphans([st EXCEPT !.reg.deps = Put(st.reg.deps, orphaned, deps)],
                            orphans, txid, i + 1)
          ELSE CheckOrphans([reg |-> [st.reg EXCEPT !.deps = Del(st.reg.deps, orphaned)],
                             run |-> Append(st.run, orphaned)],
                            orphans, txid, i + 1)

\* _importOrphaned(txid)
ImportOrphaned(reg, txid) ==
  IF txid \notin DOMAIN reg.orphans THEN [reg |-> reg, run |-> <<>>]
  ELSE CheckOrphans([reg |-> [reg EXCEPT !.orphans = Del(reg.orphans, txid)],
                     run |-> <<>>],
                    reg.orphans[txid], txid, 1)

\* The oldest deferred callback runs.
RunImmediate ==
  LET job == Head(immediate)
      rest == Tail(immediate)
      out == ImportOrphaned(_orphanedTx, job[2])
      q == IF job[1] = "orphaned"
           THEN rest \o [i \in 1..Len(out.run) |-> <<"runTx", out.run[i]>>]
           ELSE rest
      lowered == [t \in MempoolTxIds |-> [imp[t] EXCEPT !.bar = Lower(@)]]
  IN /\ immediate # <<>>
     /\ immediate' = q
     /\ _orphanedTx' = IF job[1] = "orphaned" THEN out.reg ELSE _orphanedTx
     /\ imp' = IF job[1] = "runTx"
               THEN CallRunTxImport(lowered, job[2], q, NodeHasTx(job[2], chain, mempool))
               ELSE lowered
     /\ runner' = [runner EXCEPT !.bar = Lower(@)]
     /\ UNCHANGED << chain, mempool, nodeOps, db, published, _latest,
                     _blockchainLatest, _lock, main, pending, fails, mark >>
     /\ UNCHANGED announced
     /\ UNCHANGED colorVars

(***************************************************************************)
(* The specification                                                       *)
(***************************************************************************)
Next ==
  \/ \E c \in NodeChains : NodeNewChain(c)
  \/ \E t \in MempoolTxIds : NodeAcceptTx(t)
  \/ Run
  \/ GetLatestRpc
  \/ CheckSynced
  \/ DownloadBlock
  \/ ReorgAcquire
  \/ \E ok \in BOOLEAN : ReorgBody(ok)
  \/ ImportBlockAcquire
  \/ ImportBlockBody
  \/ \E ok \in BOOLEAN : ImportBlockCommit(ok)
  \/ ImportBlockDone
  \/ \E ok \in BOOLEAN : Catch(ok)
  \/ MempoolRead
  \/ \E ok \in BOOLEAN : MempoolApply(ok)
  \/ \E t \in MempoolTxIds : TxAcquire(t)
  \/ \E t \in MempoolTxIds, ok \in BOOLEAN : TxTransaction(t, ok)
  \/ \E t \in MempoolTxIds : TxContinue(t)
  \/ RunImmediate

Spec == Init /\ [][Next]_vars

(***************************************************************************)
(* The color scanner (src/unnamed/part_000): a second process on the same  *)
(* store.  Its table ccScannedTxIds maps a txid to [blockhash, height],    *)
(* both null for an unconfirmed transaction.  The statements are those of  *)
(* lib/sql, written after the specification's account of them.             *)
(***************************************************************************)
NULL_HASH == "null"

SelectCcLatestBlock(sc) ==
  LET cs == {t \in DOMAIN sc : sc[t].height # NULL}
  IN IF cs = {} THEN <<>>
     ELSE LET h == MaxOf({sc[t].height : t \in cs})
              t == CHOOSE u \in cs : sc[u].height = h
          IN <<[blockhash |-> sc[t].blockhash, height |-> h]>>

SelectCcBlockHash(sc, height) ==
  LET cs == {t \in DOMAIN sc : sc[t].height # NULL /\ sc[t].height = height}
  IN IF cs = {} THEN <<>>
     ELSE <<[blockhash |-> sc[CHOOSE t \in cs : TRUE].blockhash]>>

SelectCcUnconfirmed(sc) == SetToSeq({t \in DOMAIN sc : sc[t].height = NULL})

SelectCcIsTxScanned(sc, txId) == txId \in DOMAIN sc

UpdateCcMakeUnconfirmed(sc, height) ==
  [t \in DOMAIN sc |->
     IF Gt(sc[t].height, height)
     THEN [blockhash |-> NULL_HASH, height |-> NULL] ELSE sc[t]]

UpdateCcMakeConfirmed(sc, txIds, blockhash, height) ==
  [t \in DOMAIN sc |->
     IF t \in SeqToSet(txIds)
     THEN [blockhash |-> blockhash, height |-> height] ELSE sc[t]]

DeleteCcByTxId(sc, txId) == Del(sc, txId)

SelectBlocksTxIdsByHeight(d, height) ==
  IF height \in DOMAIN d.blocks
  THEN <<[hash |-> d.blocks[height], height |-> height,
          prevHash |-> Block[d.blocks[height]].prevHash,
          txids |-> Block[d.blocks[height]].txs]>>
  ELSE <<>>

\* One statement of a database transaction, for the order they are issued in.
Stmt(name, arg) == [stmt |-> name, arg |-> arg]

\* lines 57-81: _addTx(client, txId, blockhash, height) on the state
\* st = [sc, log, threw]; block is <<>> when blockhash and height are not
\* passed, <<[hash, height]>> when they are.  getTx throws for a transaction
\* the store has not.
_addTx(st, d, txId, block) ==
  IF SelectCcIsTxScanned(st.sc, txId)
  THEN [st EXCEPT !.added = FALSE]
  ELSE IF ~SelectTransactionsExists(d, txId)
  THEN [st EXCEPT !.threw = TRUE, !.added = FALSE]
  ELSE LET row == IF block # <<>>
                  THEN [blockhash |-> block[1].hash, height |-> block[1].height]
                  ELSE [blockhash |-> NULL_HASH, height |-> NULL]
       IN [st EXCEPT !.sc = Put(st.sc, txId, row),
                     !.log = Append(st.log, Stmt("insert", txId)),
                     !.added = TRUE]

\* lines 222-227: _addTx for the txids of the block from the i-th on;
\* toUpdate collects the txids that were scanned already.
RECURSIVE ScanBlockTxs(_, _, _, _)
ScanBlockTxs(st, d, row, i) ==
  IF i > Len(row.txids) THEN st
  ELSE LET s1 == _addTx(st, d, row.txids[i], <<[hash |-> row.hash, height |-> row.height]>>)
           s2 == IF s1.added \/ s1.threw THEN s1
                 ELSE [s1 EXCEPT !.toUpdate = Append(@, row.txids[i])]
       IN ScanBlockTxs(s2, d, row, i + 1)

\* lines 218-234: the import of one block's rows and makeConfirmed
ScanBlock(sc, log, d, row) ==
  LET s0 == [sc |-> sc, log |-> log, threw |-> FALSE, added |-> FALSE,
             toUpdate |-> <<>>]
      s1 == ScanBlockTxs(s0, d, row, 1)
  IN IF s1.threw THEN [result |-> "throws", sc |-> sc, log |-> s1.log]
     ELSE [result |-> "imported",
           sc |-> UpdateCcMakeConfirmed(s1.sc, s1.toUpdate, row.hash, row.height),
           log |-> Append(s1.log, Stmt("makeConfirmed", row.height))]

\* lines 196-206: walk back until the scanned hash at height is the parent
\* of the stored block at height + 1; rows[0] of an empty result throws.
RECURSIVE WalkBack(_, _, _, _)
WalkBack(d, sc, height, hash) ==
  LET result == SelectBlocksTxIdsByHeight(d, height + 1)
      rows == SelectCcBlockHash(sc, height - 1)
  IN IF result = <<>> THEN [ok |-> FALSE]
     ELSE IF hash = result[1].prevHash
     THEN [ok |-> TRUE, height |-> height, hash |-> hash, row |-> result[1]]
     ELSE IF rows = <<>> THEN [ok |-> FALSE]
     ELSE WalkBack(d, sc, height - 1, rows[1].blockhash)

\* lines 173-235: the database transaction of one turn of updateBlocks'
\* loop.  result is "done" (running = false), "imported" (committed) or
\* "throws" (rolled back); log holds the statements on ccScannedTxIds in
\* the order they were issued.
UpdateBlocksPass(d, sc) ==
  LET scanned == SelectCcLatestBlock(sc)
      stored == SelectBlocksLatest(d)
      first == SelectBlocksTxIdsByHeight(d, 0)
      Throws == [result |-> "throws", sc |-> sc, log |-> <<>>]
  IN IF scanned = <<>>
     THEN IF first = <<>> THEN Throws ELSE ScanBlock(sc, <<>>, d, first[1])
     ELSE LET latest == [hash |-> scanned[1].blockhash, height |-> scanned[1].height]
          IN IF stored = <<>> THEN Throws
             ELSE IF latest.hash = stored[1].hash
             THEN [result |-> "done", sc |-> sc, log |-> <<>>]
             ELSE LET below == latest.height >= stored[1].height
                      rows == SelectCcBlockHash(sc, stored[1].height - 1)
                  IN IF below /\ rows = <<>> THEN Throws
                     ELSE LET height == IF below THEN stored[1].height - 1
                                        ELSE latest.height
                              hash == IF below THEN rows[1].blockhash ELSE latest.hash
                              w == WalkBack(d, sc, height, hash)
                          IN IF ~w.ok THEN Throws
                             ELSE IF w.hash # latest.hash
                             THEN ScanBlock(UpdateCcMakeUnconfirmed(sc, w.height),
                                            <<Stmt("makeUnconfirmed", w.height)>>,
                                            d, w.row)
                             ELSE ScanBlock(sc, <<>>, d, w.row)

\* lines 98-100: the transaction of addTxs for one txid; an error is logged
AddTxsTransaction(d, sc, txId) ==
  LET s0 == [sc |-> sc, log |-> <<>>, threw |-> FALSE, added |-> FALSE]
      s1 == _addTx(s0, d, txId, <<>>)
  IN IF s1.threw THEN sc ELSE s1.sc

\* lines 121-152: the transaction of removeTxs for one txid
RemoveTxsTransaction(sc, txId) ==
  IF ~SelectCcIsTxScanned(sc, txId) THEN sc ELSE DeleteCcByTxId(sc, txId)

(***************************************************************************)
(* withLock is make-concurrent with concurrency 1: a call runs its body at *)
(* once when fewer than Concurrency bodies run, otherwise it waits in the  *)
(* queue; when a body ends the first waiting call runs its own.            *)
(***************************************************************************)
Call(fn, txIds, awaited) == [fn |-> fn, txIds |-> txIds, awaited |-> awaited]

Body(call) ==
  [fn |-> call.fn, txIds |-> call.txIds, awaited |-> call.awaited,
   pc |-> IF call.fn = "updateBlocks" THEN "blocks" ELSE "txs", errors |-> 0]

\* lines 15-20, 85-86: this.withLock(() => fn.apply(this, arguments))
WithLock(cc, call) ==
  IF CanLaunch(cc.lock.launched)
  THEN [lock |-> [cc.lock EXCEPT !.launched = @ + 1],
        active |-> Append(cc.active, Body(call))]
  ELSE [lock |-> [cc.lock EXCEPT !.queue = Append(@, call)], active |-> cc.active]

RemoveAt(s, i) == SubSeq(s, 1, i - 1) \o SubSeq(s, i + 1, Len(s))

\* The i-th running body ends: its slot goes to the first waiting call.
Finish(cc, i) ==
  LET lock == [cc.lock EXCEPT !.launched = @ - 1]
      active == RemoveAt(cc.active, i)
  IN IF lock.queue # <<>> /\ CanLaunch(lock.launched)
     THEN [lock |-> [launched |-> lock.launched + 1, queue |-> Tail(lock.queue)],
           active |-> Append(active, Body(Head(lock.queue)))]
     ELSE [lock |-> lock, active |-> active]

Cc == [lock |-> ccLock, active |-> ccActive]

\* How many calls an event handler finds waiting at most.
MaxCcQueue == 1

\* The txids the addtx and removetx events the scanner receives name.
EventTxIds == {"P"}

\* The synchronizer's variables the color scanner does not read.
syncVars ==
  << chain, mempool, nodeOps, db, published, _latest, _blockchainLatest,
     _orphanedTx, _lock, main, runner, pending, imp, immediate, fails, mark,
     announced >>

\* line 281: run() calls updateBlocks and waits for it
ColorRun ==
  /\ ccMain = "start"
  /\ LET cc == WithLock(Cc, Call("updateBlocks", <<>>, TRUE))
     IN ccLock' = cc.lock /\ ccActive' = cc.active
  /\ ccMain' = "first"
  /\ UNCHANGED ccScanned
  /\ UNCHANGED syncVars

\* lines 284-300: run() subscribes and calls updateBlocks again
ColorListen ==
  /\ ccMain = "listen"
  /\ LET cc == WithLock(Cc, Call("updateBlocks", <<>>, TRUE))
     IN ccLock' = cc.lock /\ ccActive' = cc.active
  /\ ccMain' = "second"
  /\ UNCHANGED ccScanned
  /\ UNCHANGED syncVars

Listening == ccMain \in {"second", "done"} /\ Len(ccLock.queue) < MaxCcQueue

\* lines 285-294: the handlers of addtx and removetx
OnTx(fn, txId, unconfirmed) ==
  /\ Listening
  /\ IF unconfirmed
     THEN LET cc == WithLock(Cc, Call(fn, <<txId>>, FALSE))
          IN ccLock' = cc.lock /\ ccActive' = cc.active
     ELSE UNCHANGED <<ccLock, ccActive>>
  /\ UNCHANGED <<ccScanned, ccMain>>
  /\ UNCHANGED syncVars

\* lines 295-296: the handler of addblock and removeblock
OnBlock ==
  /\ Listening
  /\ LET cc == WithLock(Cc, Call("updateBlocks", <<>>, FALSE))
     IN ccLock' = cc.lock /\ ccActive' = cc.active
  /\ UNCHANGED <<ccScanned, ccMain>>
  /\ UNCHANGED syncVars

\* lines 171-239: one turn of updateBlocks' first loop; errors is the number
\* of errors its catch has logged (line 237), modulo 2
UpdateBlocksTransaction(i) ==
  LET pass == UpdateBlocksPass(db, ccScanned)
  IN /\ i \in 1..Len(ccActive)
     /\ ccActive[i].pc = "blocks"
     /\ ccScanned' = pass.sc
     /\ ccActive' = [ccActive EXCEPT ![i].errors = IF pass.result = "throws"
                                                     THEN 1 - @ ELSE @,
                                     ![i].pc = IF pass.result = "done"
                                               THEN "unconfirmed" ELSE @]
     /\ UNCHANGED <<ccLock, ccMain>>
     /\ UNCHANGED syncVars

\* What run() does when a call it waits for returns.
Returned(call) ==
  IF ~call.awaited THEN ccMain
  ELSE IF ccMain = "first" THEN "listen" ELSE "done"

\* lines 241-266: removeTxs and addTxs are called and not waited for, and
\* updateBlocks returns
UpdateUnconfirmed(i) ==
  LET ccTxIds == SelectCcUnconfirmed(ccScanned)
      txIds == SelectTransactionsUnconfirmed(db)
      c1 == WithLock(Cc, Call("removeTxs", Difference(ccTxIds, SeqToSet(txIds)), FALSE))
      c2 == WithLock(c1, Call("addTxs", Difference(txIds, SeqToSet(ccTxIds)), FALSE))
      c3 == Finish(c2, i)
  IN /\ i \in 1..Len(ccActive)
     /\ ccActive[i].pc = "unconfirmed"
     /\ ccLock' = c3.lock
     /\ ccActive' = c3.active
     /\ ccMain' = Returned(ccActive[i])
     /\ UNCHANGED ccScanned
     /\ UNCHANGED syncVars

\* lines 94-108 and 117-160: one turn of the loop of addTxs or removeTxs
TxsStep(i) ==
  /\ i \in 1..Len(ccActive)
  /\ ccActive[i].pc = "txs"
  /\ ccActive[i].txIds # <<>>
  /\ ccScanned' = IF ccActive[i].fn = "addTxs"
                  THEN AddTxsTransaction(db, ccScanned, Head(ccActive[i].txIds))
                  ELSE RemoveTxsTransaction(ccScanned, Head(ccActive[i].txIds))
  /\ ccActive' = [ccActive EXCEPT ![i].txIds = Tail(@)]
  /\ UNCHANGED <<ccLock, ccMain>>
  /\ UNCHANGED syncVars

\* addTxs or removeTxs returns
TxsDone(i) ==
  LET cc == Finish(Cc, i)
  IN /\ i \in 1..Len(ccActive)
     /\ ccActive[i].pc = "txs"
     /\ ccActive[i].txIds = <<>>
     /\ ccLock' = cc.lock
     /\ ccActive' = cc.active
     /\ UNCHANGED <<ccScanned, ccMain>>
     /\ UNCHANGED syncVars

\* The synchronizer next to the color scanner: a node that switches chain
\* once, no mempool, no failing request.
ColorInit ==
  /\ Constructed
  /\ chain \in {<<"B0", "B1a">>, <<"B0", "B1a", "B2a">>}
  /\ mempool = {}
  /\ nodeOps = Budget(MaxDisturbances, 0, 0).nodeOps
  /\ fails = 0
  /\ ccScanned = EmptyTable
  /\ ccLock = [launched |-> 0, queue |-> <<>>]
  /\ ccActive = <<>>
  /\ ccMain = "start"

SyncNext ==
  \/ \E c \in NodeChains : NodeNewChain(c)
  \/ Run
  \/ GetLatestRpc
  \/ CheckSynced
  \/ DownloadBlock
  \/ ReorgAcquire
  \/ ReorgBody(TRUE)
  \/ ImportBlockAcquire
  \/ ImportBlockBody
  \/ ImportBlockCommit(TRUE)
  \/ ImportBlockDone
  \/ Catch(TRUE)
  \/ MempoolRead
  \/ MempoolApply(TRUE)
  \/ RunImmediate

ColorNext ==
  \/ SyncNext
  \/ ColorRun
  \/ ColorListen
  \/ \E fn \in {"addTxs", "removeTxs"}, t \in EventTxIds, u \in BOOLEAN : OnTx(fn, t, u)
  \/ OnBlock
  \/ \E i \in 1..Len(ccActive) : UpdateBlocksTransaction(i)
  \/ \E i \in 1..Len(ccActive) : UpdateUnconfirmed(i)
  \/ \E i \in 1..Len(ccActive) : TxsStep(i)
  \/ \E i \in 1..Len(ccActive) : TxsDone(i)

ColorSpec == ColorInit /\ [][ColorNext]_vars

(***************************************************************************)
(* The synchronizer alone under fair scheduling: the event loop runs every  *)
(* callback that is ready.  The node switches chain at most MaxChainOps     *)
(* times, holds no mempool transaction and no request fails.                *)
(***************************************************************************)
FairInit ==
  /\ Constructed
  /\ ColorOff
  /\ mempool = {}
  /\ nodeOps = Budget(MaxChainOps, 0, 0).nodeOps
  /\ fails = 0

\* The steps of the event loop that are ready when their guard holds.
Scheduled ==
  \/ Run
  \/ GetLatestRpc
  \/ CheckSynced
  \/ DownloadBlock
  \/ ReorgAcquire
  \/ ImportBlockDone
  \/ Catch(TRUE)
  \/ MempoolRead
  \/ RunImmediate

\* The steps of the run that take the lock of _importBlock or run a
\* database transaction (the reorg rollback, the block import and its
\* commit, the mempool removal): when one is ready, and the step in which
\* one runs.  In SyncNext no request fails, so a step that leaves one of
\* these positions is ImportBlockAcquire, ReorgBody, ImportBlockBody,
\* ImportBlockCommit or MempoolApply.
StoreStepReady ==
  \/ runner.pc = "import" /\ runner.bar = 0 /\ CanLock("block")
  \/ runner.pc = "reorgBody" /\ runner.bar = 0
  \/ runner.pc = "importBody"
  \/ runner.pc = "importCommit" /\ runner.latest.height + 1 \notin DOMAIN db.blocks
  \/ runner.pc = "mempoolApply" /\ runner.bar = 0

StoreStepRuns ==
  /\ runner.pc \in {"import", "reorgBody", "importBody", "importCommit", "mempoolApply"}
  /\ runner'.pc # runner.pc

\* Weak fairness of the event loop's steps; for the steps on the store it is
\* written out, with their guard in place of ENABLED.
FairSpec ==
  /\ FairInit
  /\ [][SyncNext]_vars
  /\ WF_vars(Scheduled)
  /\ ([]<>(~StoreStepReady) \/ []<><<StoreStepRuns>>_vars)

(***************************************************************************)
(* What a run of _runBlockImport started from and what it published        *)
(***************************************************************************)
OnChannel(log, channel) == SelectSeq(log, LAMBDA e : e.channel = channel)

BlockLog ==
  SelectSeq(published, LAMBDA e : e.channel \in {"removeblock", "broadcastblock"})

\* The stored blocks are a chain: heights 0..k.
IsChain(blocks) == DOMAIN blocks = 0..(Cardinality(DOMAIN blocks) - 1)

StoredTip(blocks) == Cardinality(DOMAIN blocks) - 1

NodeTip(c) == Len(c) - 1

\* The greatest height up to which the stored chain and the node's chain
\* agree, -1 when they share no block.
CommonHeight(blocks, c) ==
  MaxOf({-1} \cup {h \in DOMAIN blocks :
                    \A g \in 0..h : g < Len(c) /\ g \in DOMAIN blocks /\ blocks[g] = c[g + 1]})

\* The block part of a run is over, and neither the node changed nor an I/O
\* request failed while it ran.
RunEnded == runner.pc = "mempool" /\ mark.clean

\* The store the run began with forks from the node's longer chain.
Forked ==
  /\ IsChain(mark.blocks0)
  /\ CommonHeight(mark.blocks0, mark.chain0) >= 0
  /\ CommonHeight(mark.blocks0, mark.chain0) < StoredTip(mark.blocks0)
  /\ StoredTip(mark.blocks0) < NodeTip(mark.chain0)

\* The store the run began with is a prefix of the node's chain.
Prefix ==
  /\ IsChain(mark.blocks0)
  /\ CommonHeight(mark.blocks0, mark.chain0) = StoredTip(mark.blocks0)

\* broadcastblock for the node's blocks from height from to the tip, in order
Broadcasts(c, from) ==
  [i \in 1..(NodeTip(c) - from + 1) |->
     Event(BroadcastBlock(c[from + i], from + i - 1, Opts("client")))]

AddBlocks(c, from) ==
  [i \in 1..(NodeTip(c) - from + 1) |-> Event(AddBlock(c[from + i], Opts("client")))]

(***************************************************************************)
(* The claims                                                              *)
(***************************************************************************)
\* C1: at every committed transaction boundary the stored block heights are
\* exactly 0..latest.height; no height is missing, the fork-point block
\* included after a reorg rollback and the import of the new branch.
C1_HeightsContiguous == DOMAIN db.blocks = 0..GetLatest(db).height

\* C2: a run that starts from a store forking from the node's longer chain
\* at height c publishes removeblock once for each stored block above c and
\* for no other, all of them before the first broadcastblock, and then
\* broadcastblock for the node's blocks c+1..tip in order.
C2_ReorgEvents ==
  (RunEnded /\ Forked) =>
    LET c == CommonHeight(mark.blocks0, mark.chain0)
        removes == OnChannel(BlockLog, "removeblock")
    IN /\ BlockLog = removes \o Broadcasts(mark.chain0, c + 1)
       /\ Len(removes) = StoredTip(mark.blocks0) - c
       /\ {removes[i].payload.hash : i \in 1..Len(removes)}
            = {mark.blocks0[h] : h \in (c + 1)..StoredTip(mark.blocks0)}

\* C3: a run that starts from a store that is a prefix of the node's chain,
\* with no I/O failure, ends its outer loop with latest at the node's tip,
\* having published one broadcastblock and one addblock for each newly
\* imported block, the broadcastblock events in increasing height order.
C3_LinearAdvance ==
  (RunEnded /\ Prefix) =>
    /\ _latest = NodeLatest(mark.chain0)
    /\ BlockLog = Broadcasts(mark.chain0, StoredTip(mark.blocks0) + 1)
    /\ OnChannel(published, "addblock")
         = AddBlocks(mark.chain0, StoredTip(mark.blocks0) + 1)

\* An empty store has advanced to a node's chain of three blocks.
C3_Witness ==
  /\ RunEnded
  /\ Prefix
  /\ mark.blocks0 = EmptyTable
  /\ _latest.height = 2
  /\ Len(BlockLog) = 3

\* C4: what a database transaction publishes is delivered if and only if it
\* commits: no step in which a transaction aborts delivers an event, addtx
\* and removetx included, and _importBlock delivers none while its
\* transaction is still open.
C4_TransactionalPublication ==
  [][/\ fails' < fails => published' = published
     /\ (runner.pc = "importBody" /\ runner'.pc = "importCommit")
          => published' = published]_vars

\* The events a step delivers.
NewEvents == SubSeq(published', Len(published) + 1, Len(published'))

\* C5: the addtx of _importUnconfirmedTx carries unconfirmed = true, the
\* addtx of _importBlock carries unconfirmed = false, and the removetx of the
\* mempool removal carries unconfirmed = true and the plain txid of a
\* transaction it removes.
C5_UnconfirmedFlag ==
  [][/\ \A t \in MempoolTxIds :
          (imp[t].pc = "txn" /\ imp'[t].pc = "js") =>
            \A i \in 1..Len(NewEvents) :
              NewEvents[i].channel = "addtx" =>
                NewEvents[i].payload = [txId |-> t, unconfirmed |-> TRUE]
     /\ (runner.pc = "importBody" /\ runner'.pc = "importCommit") =>
          \A i \in 1..Len(NewEvents) :
            NewEvents[i].channel = "addtx" => ~NewEvents[i].payload.unconfirmed
     /\ (runner.pc = "mempoolApply" /\ runner'.pc # "mempoolApply") =>
          \A i \in 1..Len(NewEvents) :
            NewEvents[i].channel = "removetx" =>
              /\ NewEvents[i].payload.unconfirmed
              /\ NewEvents[i].payload.txId \in SeqToSet(runner.sTxIds)]_vars

\* The transaction row of txid says it is unconfirmed.
IsUnconfirmed(d, txid) ==
  txid \in DOMAIN d.transactions /\ d.transactions[txid] = NULL

\* C6: at every committed transaction boundary a history row has height =
\* null if and only if the transaction row of the transaction that produced
\* the output has height = null.
C6_OutputHeight ==
  \A k \in DOMAIN db.history :
    /\ k[2] \in DOMAIN db.transactions
    /\ db.history[k].height = NULL <=> db.transactions[k[2]] = NULL

\* P was imported unconfirmed and a block has confirmed it since, the events
\* of the unconfirmed import still in the window.
C6_Witness ==
  /\ \E i \in 1..Len(published) :
       published[i] = Event(BroadcastTx("P", NULL_TXID, NULL, Opts("client")))
  /\ "P" \in DOMAIN db.transactions
  /\ db.transactions["P"] # NULL
  /\ <<"p", "P", 0>> \in DOMAIN db.history
  /\ db.history[<<"p", "P", 0>>].height # NULL

\* C7: at every committed transaction boundary a history row has
\* input_height = null if and only if its input_txid is null or the
\* transaction row input_txid names has height = null.
C7_InputHeight ==
  \A k \in DOMAIN db.history :
    db.history[k].iheight = NULL <=>
      (db.history[k].itxid = NULL_TXID \/ IsUnconfirmed(db, db.history[k].itxid))

\* C8: every transaction row with a non-null height h has its txid in the
\* txids of the block row stored at height h.
C8_ConfirmedInBlock ==
  \A txid \in DOMAIN db.transactions :
    db.transactions[txid] # NULL =>
      /\ db.transactions[txid] \in DOMAIN db.blocks
      /\ txid \in SeqToSet(Block[db.blocks[db.transactions[txid]]].txs)

\* The run began with B1a stored at height 1; the rollback and the import
\* of the new branch have put B1b, with D, there.
C8_Witness ==
  /\ 1 \in DOMAIN mark.blocks0
  /\ mark.blocks0[1] = "B1a"
  /\ 1 \in DOMAIN db.blocks
  /\ db.blocks[1] = "B1b"
  /\ "D" \in DOMAIN db.transactions
  /\ db.transactions["D"] = 1
  /\ "P" \in DOMAIN db.transactions
  /\ db.transactions["P"] = NULL

\* C9: in every reachable state the orphan registry is symmetric: txid is in
\* orphans[p] if and only if p is in deps[txid].
C9_RegistrySymmetric ==
  LET deps == _orphanedTx.deps
      orphans == _orphanedTx.orphans
  IN /\ \A p \in DOMAIN orphans : \A t \in SeqToSet(orphans[p]) :
          t \in DOMAIN deps /\ p \in SeqToSet(deps[t])
     /\ \A t \in DOMAIN deps : \A p \in SeqToSet(deps[t]) :
          p \in DOMAIN orphans /\ t \in SeqToSet(orphans[p])

\* Every import has come to rest: the start-up and the block import loop are
\* over, no request is in flight, no setImmediate callback is queued.
Quiescent ==
  /\ main = "done"
  /\ runner.pc = "idle"
  /\ pending = 0
  /\ immediate = <<>>
  /\ \A t \in MempoolTxIds : imp[t].pc = "idle"

\* C10: orphan resolution loses no wake-up. Once every import has come to rest,
\* a transaction that is still registered as deferred waits only for parents
\* that have no transaction row (the import of a parent, unconfirmed or inside
\* a block, has woken every child registered for it), and it has no
\* transaction row itself.
C10_OrphanResolution ==
  Quiescent =>
    \A c \in DOMAIN _orphanedTx.deps :
      /\ c \notin DOMAIN db.transactions
      /\ \A p \in SeqToSet(_orphanedTx.deps[c]) : p \notin DOMAIN db.transactions

\* C11: an unconfirmed import never publishes the addtx event of a
\* transaction before the addtx event of each of its parents has been
\* published.
C11_ParentsAnnouncedFirst ==
  [][\A t \in MempoolTxIds :
       (imp[t].pc = "txn" /\ imp'[t].pc = "js") =>
         \A i \in 1..Len(NewEvents) :
           NewEvents[i].channel = "addtx" =>
             Parents(NewEvents[i].payload.txId) \subseteq announced]_vars

\* C, first deferred or not, has been imported unconfirmed after its parents
\* P and Q, both unconfirmed too.
C11_Witness ==
  /\ {"P", "Q", "C"} \subseteq announced
  /\ IsUnconfirmed(db, "P")
  /\ IsUnconfirmed(db, "Q")
  /\ IsUnconfirmed(db, "C")

\* C12: whenever _importBlock is about to import a block B, for every
\* transaction T of B that can be imported unconfirmed first,
\* _importUnconfirmedTx(T) followed by _importBlock(B) leaves the same rows as
\* _importBlock(B) alone: T has the block's height, so has every history row
\* T produced, and every history row T spent names T with the block's height.
C12_UpgradeEqualsBlock ==
  runner.pc = "import" =>
    \A t \in SeqToSet(Block[runner.block].txs) \cap MempoolTxIds :
      LET height == runner.latest.height + 1
          u == ImportUnconfirmedTxBody(db, t)
          both == ImportBlock(u.db, runner.block, height).db
          alone == ImportBlock(db, runner.block, height).db
      IN u.result = "import" =>
           /\ both = alone
           /\ both.transactions[t] = height
           /\ \A k \in OutputKeys(both, t) : both.history[k].height = height
           /\ \A i \in 1..Len(Tx[t].inputs) :
                \A k \in HistoryKeys(both, Tx[t].inputs[i].prevTxId,
                                      Tx[t].inputs[i].outputIndex) :
                  both.history[k].itxid = t /\ both.history[k].iheight = height

\* Q was imported unconfirmed in this window and block B2a has confirmed it
\* at height 2 since, the output of cb0 it spends included.
C12_Witness ==
  /\ \E i \in 1..Len(published) :
       published[i] = Event(BroadcastTx("Q", NULL_TXID, NULL, Opts("client")))
  /\ "Q" \in DOMAIN db.transactions
  /\ db.transactions["Q"] = 2
  /\ <<"a1", "cb0", 1>> \in DOMAIN db.history
  /\ db.history[<<"a1", "cb0", 1>>] = [height |-> 0, itxid |-> "Q", iheight |-> 2]

\* _importBlock for the blocks of the chain blocks at heights h..tip, in order.
RECURSIVE Reimport(_, _, _, _)
Reimport(d, blocks, h, tip) ==
  IF h > tip THEN d
  ELSE Reimport(ImportBlock(d, blocks[h], h).db, blocks, h + 1, tip)

\* C13: whenever the reorg rollback is about to run on a stored chain, for
\* the fork height f it walked back to (the local latest is the block at
\* f - 1), the rollback followed by the import of the same original blocks
\* from height f upward gives back the block rows, the transaction rows and
\* the history rows the store had before the rollback.
C13_RollbackReimport ==
  (runner.pc = "reorgBody" /\ IsChain(db.blocks)) =>
    LET f == runner.latest.height + 1
        rolled == ReorgRollback(db, runner.latest).db
    IN Reimport(rolled, db.blocks, f, StoredTip(db.blocks)) = db

\* C14: the mempool pass, for the stored unconfirmed set S and the node's
\* mempool N it read: its removal transaction deletes the transaction row
\* and the history rows of every transaction of S minus N and clears the
\* input columns that named one, publishes exactly one removetx for each
\* removed transaction and for no other, leaves the rows of S intersect N as
\* they were, and the pass schedules the import of each transaction of
\* N minus S.
C14_MempoolReconciliation ==
  [][(runner.pc = "mempoolApply" /\ runner'.pc # "mempoolApply" /\ fails' = fails) =>
       LET S == SeqToSet(runner.sTxIds)
           N == SeqToSet(runner.nTxIds)
           removes == OnChannel(NewEvents, "removetx")
           added == SubSeq(immediate', Len(immediate) + 1, Len(immediate'))
       IN /\ \A t \in S \ N :
               /\ t \notin DOMAIN db'.transactions
               /\ OutputKeys(db', t) = {}
               /\ \A k \in DOMAIN db'.history : db'.history[k].itxid # t
          /\ Len(removes) = Cardinality(S \ N)
          /\ {removes[i].payload.txId : i \in 1..Len(removes)} = S \ N
          /\ \A t \in S \cap N :
               /\ t \in DOMAIN db.transactions =>
                    (t \in DOMAIN db'.transactions
                       /\ db'.transactions[t] = db.transactions[t])
               /\ \A k \in OutputKeys(db, t) :
                    db.history[k].itxid \notin S \ N =>
                      (k \in DOMAIN db'.history /\ db'.history[k] = db.history[k])
          /\ Len(added) = Cardinality(N \ S)
          /\ {added[i] : i \in 1..Len(added)} = {<<"runTx", t>> : t \in N \ S}]_vars

\* A step in which a body of _runBlockImport comes to its first line from
\* elsewhere than its own catch block: a body starts.
BodyStarts == runner'.pc = "getLatest" /\ runner.pc \notin {"getLatest", "catch"}

\* A step in which the running body of _runBlockImport ends.
BodyEnds == runner.pc = "mempoolApply" /\ runner'.pc # "mempoolApply"

\* C15: at most one instance of _runBlockImport executes at any time: a body
\* starts only when none is running or in the step in which the running one
\* ends, whatever run() and the node's block events call.
C15_OneInstance ==
  [][BodyStarts => (runner.pc = "idle" \/ BodyEnds)]_vars

\* A block event has arrived while a body was importing a block: its call
\* waits.
C15_Witness ==
  /\ main = "done"
  /\ pending = 1
  /\ runner.pc = "importCommit"

\* C16: a call of _runBlockImport made while a run is in flight coalesces
\* into that run: once run() has set its handlers, the end of a run starts
\* no other run, however many block events arrived while it ran.
C16_Coalesces ==
  [][(BodyEnds /\ main = "done") => runner'.pc = "idle"]_vars

\* C17: the withLock bodies that run at the same time have pairwise
\* disjoint key sets (two unconfirmed imports, or an unconfirmed import and
\* a block import, that share a txid or a parent txid never run together),
\* and while the reorgLock body runs no withLock body runs.
C17_MutualExclusion ==
  /\ \A g \in _lock.holders : \A h \in _lock.holders \ {g} :
       LockKeys(g) \cap LockKeys(h) = {}
  /\ _lock.reorg = "held" => _lock.holders = {}

\* Two withLock bodies with disjoint key sets run at the same time: the
\* unconfirmed import of C and the import of a block.
C17_Witness ==
  /\ _lock.holders = {"C", "block"}
  /\ LockKeys("C") \cap LockKeys("block") = {}

\* A request for the SmartLock is waiting and the event loop has reached it.
WaitsForLock(holder) ==
  IF holder = "block" THEN runner.pc = "import" /\ runner.bar = 0
  ELSE imp[holder].pc = "lock" /\ imp[holder].bar = 0

\* The body a holder of the SmartLock runs is running.
BodyRuns(holder) ==
  IF holder = "block" THEN runner.pc = "importBody"
  ELSE imp[holder].pc \in {"txn", "js"}

\* The lock is held by running bodies only; a reorgLock request is the
\* runner's, and it can be granted once no body holds the lock; and requests
\* never wait for one another: when nothing holds the lock and no reorgLock
\* request is there, every waiting withLock request can be granted.
LockAvailable ==
  /\ \A h \in _lock.holders : BodyRuns(h)
  /\ _lock.reorg = "waiting" <=> runner.pc = "reorgWait"
  /\ _lock.reorg = "held" <=> runner.pc = "reorgBody"
  /\ (_lock.holders = {} /\ _lock.reorg = "free") =>
       \A h \in MempoolTxIds \cup {"block"} : WaitsForLock(h) => CanLock(h)

UpdateBlocksReturns ==
  /\ ccActive # <<>>
  /\ ccActive[1].pc = "unconfirmed"
  /\ ccActive' # ccActive

\* C19: the bodies of updateBlocks, addTxs and removeTxs never overlap, at
\* most one of them runs at any time, whatever events arrive; and the
\* removeTxs and addTxs calls updateBlocks makes do not hold it up: in the
\* step that makes them updateBlocks returns, and the two calls wait in the
\* queue or, for the first of them when nothing else waits, start right then.
C19_NoOverlap ==
  /\ [](Len(ccActive) <= 1)
  /\ [][UpdateBlocksReturns =>
          /\ \A j \in 1..Len(ccActive') : ccActive'[j].pc # "unconfirmed"
          /\ Len(ccLock'.queue) + Len(ccActive') = Len(ccLock.queue) + 2]_vars

\* The removeTxs call of an updateBlocks runs, with a transaction to remove,
\* after that updateBlocks, while its addTxs call waits behind it.
C19_Witness ==
  /\ Len(ccActive) = 1
  /\ ccActive[1].fn = "removeTxs"
  /\ ccActive[1].txIds # <<>>
  /\ ccLock.queue # <<>>
  /\ Head(ccLock.queue).fn = "addTxs"

\* The blocks the color scanner has scanned: height -> blockhash.
ScannedBlocks(sc) ==
  [h \in {sc[t].height : t \in {u \in DOMAIN sc : sc[u].height # NULL}} |->
     SelectCcBlockHash(sc, h)[1].blockhash]

\* The store holds no block of the scanned branch above height r, only
\* blocks of the node's chain if any.
RolledBackTo(r) ==
  \A h \in DOMAIN db.blocks : h > r => h < Len(chain) /\ db.blocks[h] = chain[h + 1]

\* C20: when the scanner's latest block is at height s, the scanned blocks
\* agree with the node's chain up to height r < s, and the store has been
\* rolled back to r (with or without blocks of the new branch above r),
\* the next pass of updateBlocks does not fail and its first statement makes
\* the scanned rows above a height of at most r unconfirmed, before any row
\* is inserted or confirmed.
C20_RescanAfterReorg ==
  LET scanned == SelectCcLatestBlock(ccScanned)
      r == CommonHeight(ScannedBlocks(ccScanned), chain)
      pass == UpdateBlocksPass(db, ccScanned)
  IN (/\ ccActive # <<>> /\ ccActive[1].pc = "blocks"
      /\ scanned # <<>> /\ r < scanned[1].height /\ RolledBackTo(r)) =>
       /\ pass.result = "imported"
       /\ pass.log[1].stmt = "makeUnconfirmed"
       /\ pass.log[1].arg <= r

\* The transactions whose first input is a coinbase input.
CoinbaseTxIds == {t \in TxIds : IsCoinbaseInput(Tx[t].inputs[1], 0)}

\* C21: a coinbase input is never treated as a parent.  On every store,
\* _importUnconfirmedTx of a transaction of the node's chain with a coinbase
\* input changes no history row that is there and does not register it as
\* waiting for the all-zero txid; and the _importBlock that is about to run
\* names no such transaction as the spender of a history row.
C21_CoinbaseNotParent ==
  /\ \A t \in CoinbaseTxIds \cap ChainTxs(chain) :
       LET u == ImportUnconfirmedTxBody(db, t)
       IN /\ u.result = "import" =>
               \A k \in DOMAIN db.history : u.db.history[k] = db.history[k]
          /\ u.result = "orphan" =>
               ZERO_HASH \notin DOMAIN MarkOrphaned(_orphanedTx, t, u.deps).orphans
  /\ runner.pc = "import" =>
       LET b == ImportBlock(db, runner.block, runner.latest.height + 1)
       IN \A k \in DOMAIN b.db.history : b.db.history[k].itxid \notin CoinbaseTxIds

\* C22: once the node's chain has stopped changing, every run of
\* _runBlockImport leaves its loops and the synchronizer comes to rest with
\* _latest.hash equal to the hash of the node's tip, whatever the stored
\* chain and the node's chain were to one another.
C22_Convergence ==
  <>[](runner.pc = "idle" /\ main = "done" /\ _latest.hash = NodeLatest(chain).hash)

\* The removeblock events among events, as the block hashes they name.
RemoveBlockHashes(events) ==
  {events[i].payload.hash :
     i \in {j \in 1..Len(events) : events[j].channel = "removeblock"}}

\* The rollback of the running _runBlockImport commits in this step.
RollbackCommits == runner.pc = "reorgBody" /\ runner'.pc = "import"

\* C23: the reorg rollback is one step taken while reorgLock is held and no
\* withLock body runs; with f the value passed to its statements, after it
\* no block row has height > f, every transaction row that had height > f is
\* still there with height null, every history row that had height > f has
\* height null and every history row that had input_height > f has
\* input_height null and its input_txid as before; block rows, transaction
\* rows and history fields at heights <= f are as before, no row is added,
\* and the events the step publishes are one removeblock for each deleted
\* block row and nothing else.
C23_RollbackFrame ==
  [][RollbackCommits =>
       LET f == runner.latest.height - 1
           gone == {h \in DOMAIN db.blocks : h > f}
           events == SubSeq(published', Len(published) + 1, Len(published'))
       IN /\ _lock.reorg = "held"
          /\ _lock.holders = {}
          /\ DOMAIN db'.blocks = DOMAIN db.blocks \ gone
          /\ \A h \in DOMAIN db'.blocks : db'.blocks[h] = db.blocks[h]
          /\ DOMAIN db'.transactions = DOMAIN db.transactions
          /\ \A t \in DOMAIN db.transactions :
               db'.transactions[t] =
                 IF Gt(db.transactions[t], f) THEN NULL ELSE db.transactions[t]
          /\ DOMAIN db'.history = DOMAIN db.history
          /\ \A k \in DOMAIN db.history :
               /\ db'.history[k].height =
                    IF Gt(db.history[k].height, f) THEN NULL ELSE db.history[k].height
               /\ db'.history[k].iheight =
                    IF Gt(db.history[k].iheight, f) THEN NULL ELSE db.history[k].iheight
               /\ db'.history[k].itxid = db.history[k].itxid
          /\ Len(published') = Len(published) + Cardinality(gone)
          /\ \A i \in 1..Len(events) : events[i].channel = "removeblock"
          /\ RemoveBlockHashes(events) = {db.blocks[h] : h \in gone}]_vars

\* A rollback has committed and the import of the new branch has not begun:
\* B1a, stored at height 1 when the run began, is gone and a removeblock
\* event names it; P, which B1a confirmed, is still stored, unconfirmed, and
\* the output of cb0 it spends still names P as its spender, at no height.
C23_Witness ==
  /\ runner.pc = "import"
  /\ 1 \in DOMAIN mark.blocks0
  /\ mark.blocks0[1] = "B1a"
  /\ 1 \notin DOMAIN db.blocks
  /\ "B1a" \in RemoveBlockHashes(published)
  /\ "P" \in DOMAIN db.transactions
  /\ db.transactions["P"] = NULL
  /\ \E k \in DOMAIN db.history :
       /\ db.history[k].itxid = "P"
       /\ db.history[k].iheight = NULL
       /\ db.history[k].height = NULL

\* A store transaction of the running _runBlockImport fails in this step.
TransactionFails ==
  runner.pc \in {"reorgBody", "importCommit"} /\ runner'.pc = "catch"

\* C24: a block import transaction or a rollback transaction that fails
\* leaves the store as it was, and so do the steps of the transaction before
\* it fails; the catch keeps _latest while its read fails and, when the read
\* succeeds, sets it to the stored block of greatest height, or to
\* (ZERO_HASH, -1) for an empty store; the next turn of the outer loop starts
\* with that value.
C24_CursorCoherence ==
  /\ [](runner.pc = "getLatest" => _latest = GetLatest(db))
  /\ [][/\ TransactionFails => db' = db /\ _latest' = _latest
        /\ (runner.pc \in {"import", "importBody"} /\ runner' # runner) => db' = db
        /\ (runner.pc = "catch" /\ runner'.pc = "catch") => _latest' = _latest
        /\ (runner.pc = "catch" /\ runner'.pc # "catch") =>
             /\ runner'.pc = "getLatest"
             /\ db' = db
             /\ _latest' = GetLatest(db)]_vars

\* A transaction of this run has failed after the run had stored a block,
\* the catch has read _latest again and the outer loop is at its start.
C24_Witness ==
  /\ runner.pc = "getLatest"
  /\ mark.chain0 # <<>>
  /\ ~mark.clean
  /\ DOMAIN db.blocks # DOMAIN mark.blocks0
  /\ _latest = GetLatest(db)
  /\ _latest.height >= 0

(***************************************************************************)
(* The color scanner under fair scheduling: every continuation of          *)
(* part_000 the event loop holds is run in the end.  Nothing is asked of   *)
(* the synchronizer, which may stop at any point: the core store is then   *)
(* one that changes no more.                                               *)
(***************************************************************************)
ColorScheduled ==
  \/ ColorRun
  \/ ColorListen
  \/ \E i \in 1..Len(ccActive) : UpdateBlocksTransaction(i)
  \/ \E i \in 1..Len(ccActive) : UpdateUnconfirmed(i)
  \/ \E i \in 1..Len(ccActive) : TxsStep(i)
  \/ \E i \in 1..Len(ccActive) : TxsDone(i)

ColorFairSpec == ColorInit /\ [][ColorNext]_vars /\ WF_vars(ColorScheduled)

\* C25: once the core store changes no more, the updateBlocks that run()
\* waits for leaves its first loop and returns, whatever the scanner's table
\* and the core's block table are at that point, an empty block table
\* included: no pass that fails is repeated for ever.
C25_UpdateBlocksEnds == <>(ccMain = "listen")

(***************************************************************************)
(* The mempool pass with its two reads apart.  Lines 457-460 send both     *)
(* requests at once and wait for both answers: the node's answer and the   *)
(* store's answer are taken at two moments, in either order, and           *)
(* _runTxImport calls run in between.  The node stays on its chain and no  *)
(* request fails.                                                          *)
(***************************************************************************)
\* line 458: getMempoolTxs is answered
GetMempoolTxs ==
  /\ runner.pc \in {"mempool", "mempoolNode"}
  /\ runner.bar = 0
  /\ runner' = [runner EXCEPT !.nTxIds = SetToSeq(mempool),
                              !.pc = IF @ = "mempool" THEN "mempoolStore"
                                     ELSE "mempoolApply",
                              !.bar = IF runner.pc = "mempool" THEN 0
                                      ELSE Bar(immediate)]
  /\ published' = IF runner.pc = "mempool" THEN <<>> ELSE published
  /\ UNCHANGED << chain, mempool, nodeOps, db, _latest, _blockchainLatest,
                  _orphanedTx, _lock, main, pending, imp, immediate, fails, mark >>
  /\ UNCHANGED announced
  /\ UNCHANGED colorVars

\* line 459: SQL.select.transactions.unconfirmed is answered
SelectUnconfirmed ==
  /\ runner.pc \in {"mempool", "mempoolStore"}
  /\ runner.bar = 0
  /\ runner' = [runner EXCEPT !.sTxIds = SelectTransactionsUnconfirmed(db),
                              !.pc = IF @ = "mempool" THEN "mempoolNode"
                                     ELSE "mempoolApply",
                              !.bar = IF runner.pc = "mempool" THEN 0
                                      ELSE Bar(immediate)]
  /\ published' = IF runner.pc = "mempool" THEN <<>> ELSE published
  /\ UNCHANGED << chain, mempool, nodeOps, db, _latest, _blockchainLatest,
                  _orphanedTx, _lock, main, pending, imp, immediate, fails, mark >>
  /\ UNCHANGED announced
  /\ UNCHANGED colorVars

RaceInit ==
  /\ Constructed
  /\ ColorOff
  /\ nodeOps = Budget(0, MaxDisturbances, 0).nodeOps
  /\ fails = 0

RaceNext ==
  \/ \E t \in MempoolTxIds : NodeAcceptTx(t)
  \/ Run
  \/ GetLatestRpc
  \/ CheckSynced
  \/ DownloadBlock
  \/ ImportBlockAcquire
  \/ ImportBlockBody
  \/ ImportBlockCommit(TRUE)
  \/ ImportBlockDone
  \/ GetMempoolTxs
  \/ SelectUnconfirmed
  \/ MempoolApply(TRUE)
  \/ \E t \in MempoolTxIds : TxAcquire(t)
  \/ \E t \in MempoolTxIds : TxTransaction(t, TRUE)
  \/ \E t \in MempoolTxIds : TxContinue(t)
  \/ RunImmediate

RaceSpec == RaceInit /\ [][RaceNext]_vars

\* The transaction rows the step deletes.
DeletedTxIds == DOMAIN db.transactions \ DOMAIN db'.transactions

\* C26: the removal of the mempool pass deletes no transaction that is in
\* the node's mempool when the removal runs, whatever _runTxImport calls run
\* between the reads of the pass and its removal: a transaction the node
\* accepted and the synchronizer imported during the pass keeps its rows.
C26_KeepsMempoolTxs ==
  [][(runner.pc = "mempoolApply" /\ runner'.pc # "mempoolApply") =>
       \A t \in DeletedTxIds : t \notin mempool]_vars

====
